---- MODULE Spec2Model ----
(***************************************************************************)
(* Model of the Python intrusion detection system: the Blocker             *)
(* (src/src/blocker.py) with its linked list, block-list file and the      *)
(* iptables chain it drives, the orchestrator's IDS._block_ip              *)
(* (src/src/main.py) with the database tables it writes, and the Detector  *)
(* (src/src/detector.py).                                                  *)
(*                                                                         *)
(* Text is modelled as sequences of one-character strings, so that strip,  *)
(* startswith and split act on characters as the Python code does.         *)
(* Opening, reading and writing the block-list file and the database are   *)
(* taken to succeed; the outcome of every iptables invocation is chosen    *)
(* by the environment.                                                     *)
(*                                                                         *)
(* Further parts: the two severity classifiers (detector.py,               *)
(* http_detector.py), the LogParser (src/src/log_parser.py) reading the    *)
(* authentication log from a file or from journalctl, with time counted    *)
(* in ticks of half a second, and the scan loop of IDS.start with          *)
(* scan_and_respond.  The scan loop starts from an IDS object laid out as  *)
(* IDS.__init__ lays it out, its parser being a LogParser with default     *)
(* arguments; whether the constructor itself completes is not part of      *)
(* that model.                                                             *)
(*                                                                         *)
(* The command line of blocker.py (its __main__ block) is modelled as one  *)
(* action per run.  main() of main.py is also modelled statement by        *)
(* statement, as a stack of the steps the process has before it, so that   *)
(* SIGINT can arrive between any two of them: the handler of main() or,    *)
(* before it is installed, Python's default one.  A signal arrives between *)
(* steps of the model, not inside a log read or inside the child process   *)
(* of an iptables invocation.  The process starts at the first statement    *)
(* after the argument parsing of main(), ids = IDS(...), where the         *)
(* constructor of the orchestrator calls those of its components.          *)
(*                                                                         *)
(* The linked list, hash table and queue of src/src/custom_structures.py   *)
(* are also modelled node by node, on a heap of addresses, each used on    *)
(* its own; so is the HTTPDetector with its summary.  Beside the           *)
(* orchestrator's Blocker, a second one is built from the same block-list  *)
(* file by each run of blocker.py and by the dashboard's unblock_selected  *)
(* (src/src/gui.py); the two share the file and the iptables chain, not    *)
(* the list in memory.                                                     *)
(***************************************************************************)
EXTENDS Integers, Sequences, FiniteSets, TLC

\* ------------------------------------------------------------------ bounds

\* Number of calls made on the Blocker / orchestrator in one behaviour.
MaxCalls == 5

\* Number of detect_threats calls in one behaviour, and the largest
\* failed_attempts dict handed to it.
MaxDetCalls == 2
MaxItems == 2

\* Ticks of the clock, lines written by sshd one at a time, rotations of the
\* log file and scan_once calls in one behaviour.
MaxTicks == 1
MaxEntries == 1
MaxRotations == 1
MaxReads == 2

\* Scan cycles of the orchestrator in one behaviour, and the lines sshd
\* writes in bursts.
MaxCycles == 3
MaxBurstLines == 12

\* At most MaxParserCalls calls of its methods are made on a parser that
\* is used on its own.
MaxParserCalls == 3

\* At most MaxStructCalls calls are made on a linked list or a queue used
\* on its own, and MaxTableCalls on a hash table.
MaxStructCalls == 5
MaxTableCalls == 4

\* At most MaxRequests requests are handed to an HTTPDetector used on its
\* own.
MaxRequests == 4

\* ------------------------------------------------------------------ text

\* Python's None: where an exception's name, a time or a match is expected.
None == "None"
NoTimestamp == -1
NoMatch == <<>>

\* The addresses handed to the Blocker.  The second extends the first, as
\* 10.0.0.10 extends 10.0.0.1.
IP1 == <<"1">>
IP10 == <<"1", "0">>
IP2 == <<"2">>
Addrs == {IP1, IP10, IP2}

\* str.strip(): leading and trailing blanks removed.
RECURSIVE lstrip(_)
lstrip(s) == IF s # <<>> /\ Head(s) = " " THEN lstrip(Tail(s)) ELSE s

RECURSIVE rstrip(_)
rstrip(s) ==
  IF s # <<>> /\ s[Len(s)] = " " THEN rstrip(SubSeq(s, 1, Len(s) - 1)) ELSE s

strip(s) == rstrip(lstrip(s))

\* str.startswith(p)
startswith(s, p) == Len(p) <= Len(s) /\ SubSeq(s, 1, Len(p)) = p

\* s.split(c)[0]: the text before the first c (all of s when c is absent).
RECURSIVE split_first(_, _)
split_first(s, c) ==
  IF s = <<>> \/ Head(s) = c THEN <<>>
  ELSE <<Head(s)>> \o split_first(Tail(s), c)

\* ------------------------------------------------------------------ CustomLinkedList

\* The list is the sequence of its nodes' data, head first.
LL_append(l, data) == Append(l, data)

LL_search(l, data) == \E i \in 1..Len(l) : l[i] = data

RECURSIVE LL_remove(_, _)
LL_remove(l, data) ==
  IF l = <<>> THEN <<>>
  ELSE IF Head(l) = data THEN Tail(l)
  ELSE <<Head(l)>> \o LL_remove(Tail(l), data)

LL_to_list(l) == l

\* ------------------------------------------------------------------ block-list file

\* The file is the sequence of its lines (without the line break).
StartedHeader == <<"#", " ", "S">>
FlushedHeader == <<"#", " ", "F">>
Timestamp == <<"2", "6">>

\* The line _save_to_file writes: f"{ip} | {timestamp}"
EntryLine(ip) == ip \o <<" ", "|", " ">> \o Timestamp

_save_to_file(file, ip) == Append(file, EntryLine(ip))

\* The test of _remove_from_file on a line: it is written back.
KeepLine(line, ip) == ~startswith(strip(line), ip)

RECURSIVE _remove_from_file(_, _)
_remove_from_file(file, ip) ==
  IF file = <<>> THEN <<>>
  ELSE (IF KeepLine(Head(file), ip) THEN <<Head(file)>> ELSE <<>>)
       \o _remove_from_file(Tail(file), ip)

RECURSIVE _load_blocked_ips(_)
_load_blocked_ips(file) ==
  IF file = <<>> THEN <<>>
  ELSE LET line == strip(Head(file))
           rest == _load_blocked_ips(Tail(file))
       IN IF line # <<>> /\ ~startswith(line, <<"#">>)
          THEN <<strip(split_first(line, "|"))>> \o rest
          ELSE rest

\* ------------------------------------------------------------------ iptables

\* The INPUT chain, as the number of DROP rules it holds for each address.
\* One invocation of the iptables command: what was asked and whether it
\* returned 0.
FwCall(cmd, ip, ok) == [cmd |-> cmd, ip |-> ip, ok |-> ok]

\* iptables -A INPUT -s ip -j DROP: appends a rule, whatever the chain holds.
iptables_A(ipt, ip) == [ipt EXCEPT ![ip] = @ + 1]

\* iptables -D INPUT -s ip -j DROP: deletes one matching rule.
iptables_D(ipt, ip) == [ipt EXCEPT ![ip] = @ - 1]

\* iptables -F INPUT: deletes every rule of the chain.
iptables_F(ipt) == [a \in DOMAIN ipt |-> 0]

\* -A can always succeed; -D can succeed only on a rule that exists.  Every
\* invocation can fail (sudo refused, iptables missing, ...).
CanSucceed(cmd, ipt, ip) == cmd # "D" \/ ipt[ip] > 0

\* ------------------------------------------------------------------ Blocker

\* The state a Blocker acts on: its linked list, the file, the chain.
BState(list, file, ipt) == [list |-> list, file |-> file, ipt |-> ipt]

\* What a call leaves: the state, the value returned, the message printed
\* and the iptables invocations made.
BResult(b, ret, msg, fw) == [b |-> b, ret |-> ret, msg |-> msg, fw |-> fw]

\* Faulty variant of block_ip: the address is recorded whatever iptables returned.
block_ip_RecordsOnFailure(b, ip, ok) ==
  IF LL_search(b.list, ip)
  THEN BResult(b, TRUE, "INFO", <<>>)
  ELSE BResult(BState(LL_append(b.list, ip), _save_to_file(b.file, ip),
                      IF ok THEN iptables_A(b.ipt, ip) ELSE b.ipt),
               ok, IF ok THEN "SUCCESS" ELSE "ERROR",
               <<FwCall("A", ip, ok)>>)

\* Blocker.block_ip(ip); ok is the outcome of the iptables invocation,
\* should one be made.
block_ip(b, ip, ok) ==
  IF LL_search(b.list, ip)
  THEN BResult(b, TRUE, "INFO", <<>>)
  ELSE IF ok
  THEN BResult(BState(LL_append(b.list, ip), _save_to_file(b.file, ip),
                      iptables_A(b.ipt, ip)),
               TRUE, "SUCCESS", <<FwCall("A", ip, TRUE)>>)
  ELSE BResult(b, FALSE, "ERROR", <<FwCall("A", ip, FALSE)>>)

\* Faulty variant of unblock_ip: the is-it-blocked check is missing.
unblock_ip_NoCheck(b, ip, ok) ==
  IF ok
  THEN BResult(BState(LL_remove(b.list, ip), _remove_from_file(b.file, ip),
                      iptables_D(b.ipt, ip)),
               TRUE, "SUCCESS", <<FwCall("D", ip, TRUE)>>)
  ELSE BResult(b, FALSE, "ERROR", <<FwCall("D", ip, FALSE)>>)

\* Blocker.unblock_ip(ip)
unblock_ip(b, ip, ok) ==
  IF ~LL_search(b.list, ip)
  THEN BResult(b, FALSE, "INFO", <<>>)
  ELSE IF ok
  THEN BResult(BState(LL_remove(b.list, ip), _remove_from_file(b.file, ip),
                      iptables_D(b.ipt, ip)),
               TRUE, "SUCCESS", <<FwCall("D", ip, TRUE)>>)
  ELSE BResult(b, FALSE, "ERROR", <<FwCall("D", ip, FALSE)>>)

\* The loop of unblock_all over the snapshot blocked_ips, from position i;
\* oks[j] is what iptables would answer for the j-th address, acc the result
\* so far (ret counts the successes).  An answer of success is only possible
\* when the chain holds a rule to delete.
RECURSIVE unblock_all_loop(_, _, _, _)
unblock_all_loop(acc, blocked_ips, oks, i) ==
  IF i > Len(blocked_ips) THEN acc
  ELSE LET ip == blocked_ips[i]
           r == unblock_ip(acc.b, ip, oks[i] /\ CanSucceed("D", acc.b.ipt, ip))
       IN unblock_all_loop(
            BResult(r.b, IF r.ret THEN acc.ret + 1 ELSE acc.ret, "DONE",
                    acc.fw \o r.fw),
            blocked_ips, oks, i + 1)

\* Faulty variant of unblock_all: the sweep stops at the first failure.
unblock_all_StopsAtFailure(b, oks) ==
  LET blocked_ips == LL_to_list(b.list)
      Failing == {i \in 1..Len(blocked_ips) :
                    ~(oks[i] /\ CanSucceed("D", b.ipt, blocked_ips[i]))}
      upto == IF Failing = {} THEN Len(blocked_ips)
              ELSE CHOOSE i \in Failing : \A j \in Failing : i <= j
  IN unblock_all_loop(BResult(b, 0, "DONE", <<>>),
                      SubSeq(blocked_ips, 1, upto), oks, 1)

\* Blocker.unblock_all()
unblock_all(b, oks) ==
  unblock_all_loop(BResult(b, 0, "DONE", <<>>), LL_to_list(b.list), oks, 1)

\* Faulty variant of flush_iptables: the tracking is cleared whatever iptables said.
flush_iptables_AlwaysClears(b, ok) ==
  BResult(BState(<<>>, <<FlushedHeader>>,
                 IF ok THEN iptables_F(b.ipt) ELSE b.ipt),
          ok, IF ok THEN "SUCCESS" ELSE "ERROR", <<FwCall("F", <<>>, ok)>>)

\* Blocker.flush_iptables()
flush_iptables(b, ok) ==
  IF ok
  THEN BResult(BState(<<>>, <<FlushedHeader>>, iptables_F(b.ipt)),
               TRUE, "SUCCESS", <<FwCall("F", <<>>, TRUE)>>)
  ELSE BResult(b, FALSE, "ERROR", <<FwCall("F", <<>>, FALSE)>>)

\* Blocker.__init__ on the existing file: the list is loaded from it.
Blocker_init(b) == BState(_load_blocked_ips(b.file), b.file, b.ipt)

\* ------------------------------------------------------------------ command line of blocker.py

\* str.lower() on the characters the answers are typed with.
lower_char(c) ==
  CASE c = "Y" -> "y" [] c = "E" -> "e" [] c = "S" -> "s"
    [] c = "N" -> "n" [] c = "O" -> "o" [] OTHER -> c

lower(s) == [i \in 1..Len(s) |-> lower_char(s[i])]

\* What the operator may type at the prompt of the flush command.
Answers ==
  {<<"y", "e", "s">>, <<"Y", "E", "S">>, <<"Y", "e", "s">>, <<"n", "o">>,
   <<"y">>, <<>>, <<" ", "y", "e", "s">>}

\* sys.argv[1:] of python3 blocker.py ...: no argument, the four commands
\* (unblock with and without its address), and a word that is no command.
Argvs ==
  {<<>>, <<"list">>, <<"unblock">>, <<"unblock-all">>, <<"flush">>,
   <<"status">>} \cup {<<"unblock", ip>> : ip \in Addrs}

\* A run of blocker.py that made no change through its Blocker b.
Ran(b, msg) == BResult(b, TRUE, msg, <<>>)

\* Faulty variant of the command line: flush does not ask.
blocker_main_NoPrompt(b, argv, answer, ok, oks) ==
  LET blocker == Blocker_init(b)
  IN IF Len(argv) > 0 /\ argv[1] = "flush" THEN flush_iptables(blocker, ok)
     ELSE Ran(blocker, "USAGE")

\* The __main__ block of blocker.py, run with the arguments argv: a Blocker
\* is built from the file, then the command is carried out.  answer is what
\* the operator types when asked, ok and oks are what iptables answers.  The
\* list command only reads (iptables -L).
blocker_main(b, argv, answer, ok, oks) ==
  LET blocker == Blocker_init(b)
  IN IF Len(argv) > 0
       THEN IF argv[1] = "list" THEN Ran(blocker, "LIST")
            ELSE IF argv[1] = "unblock" /\ Len(argv) > 1
              THEN unblock_ip(blocker, argv[2],
                              ok /\ CanSucceed("D", blocker.ipt, argv[2]))
            ELSE IF argv[1] = "unblock-all" THEN unblock_all(blocker, oks)
            ELSE IF argv[1] = "flush"
              THEN IF lower(answer) = <<"y", "e", "s">>
                     THEN flush_iptables(blocker, ok)
                   ELSE Ran(blocker, "")
            ELSE Ran(blocker, "USAGE")
     ELSE Ran(blocker, "TEST")

\* IDSGUI.unblock_selected() with the address ip selected: when the
\* operator confirms, a new Blocker is built and asked to unblock it.
unblock_selected(b, ip, confirmed, ok) ==
  IF confirmed
    THEN LET blocker == Blocker_init(b)
         IN unblock_ip(blocker, ip, ok /\ CanSucceed("D", blocker.ipt, ip))
  ELSE BResult(b, FALSE, "", <<>>)

\* ------------------------------------------------------------------ Database

\* threats: the sequence of rows; blocked_ips: the set of addresses (the
\* column is UNIQUE, a second INSERT raises IntegrityError and is dropped).
DState(threats, blocked) == [threats |-> threats, blocked_ips |-> blocked]

mark_as_blocked(d, ip) ==
  DState([i \in 1..Len(d.threats) |->
            IF d.threats[i].ip_address = ip
            THEN [d.threats[i] EXCEPT !.blocked = 1]
            ELSE d.threats[i]],
         d.blocked_ips)

save_blocked_ip(d, ip) == DState(d.threats, d.blocked_ips \cup {ip})

\* get_statistics(): the rows of the two tables counted.
get_statistics(d) ==
  [total_threats |-> Len(d.threats),
   total_blocked |-> Cardinality(d.blocked_ips)]

\* Database.save_threat(ip, attempts, threat_level, notes): a new row, its
\* column blocked at the default 0 (the timestamp is left out).
save_threat(d, ip, attempts, threat_level, notes) ==
  DState(Append(d.threats,
                [ip_address |-> ip, attempts |-> attempts,
                 threat_level |-> threat_level, notes |-> notes,
                 blocked |-> 0]),
         d.blocked_ips)

\* ------------------------------------------------------------------ IDS

\* What a call of the orchestrator leaves: the Blocker's result r, the
\* database, the database methods called and the kinds of the events logged.
IResult(r, d, db, log) == [r |-> r, d |-> d, db |-> db, log |-> log]

\* IDS._block_ip(ip, reason)
IDS_block_ip(b, d, ip, ok) ==
  LET r == block_ip(b, ip, ok)
  IN IF r.ret
     THEN IResult(r, save_blocked_ip(mark_as_blocked(d, ip), ip),
                  <<"mark_as_blocked", "save_blocked_ip">>, <<"BLOCK">>)
     ELSE IResult(r, d, <<>>, <<"ERROR">>)

\* ------------------------------------------------------------------ Detector

\* Detector.__init__'s default threshold, the one main() passes.
DefaultThreshold == 5

\* The thresholds a Detector is built with here, and the attempt counts it
\* is given: for each threshold the count below it and the count equal to
\* it, and the breakpoints of the threat levels.
Thresholds == {DefaultThreshold, 8}
Counts == {4, 5, 7, 8, 10, 20}

\* The dicts handed to detect_threats, as the sequence of their items.
DetAddrs == {IP1, IP2}
FailedAttempts ==
  {fa \in UNION {[1..n -> DetAddrs \X Counts] : n \in 0..MaxItems} :
     \A i, j \in 1..Len(fa) : i # j => fa[i][1] # fa[j][1]}

\* Faulty variant of the level of a count: a breakpoint itself still gets
\* the level below it.
_calculate_threat_level_Above(attempts) ==
  IF attempts > 20 THEN "CRITICAL"
  ELSE IF attempts > 10 THEN "HIGH"
  ELSE IF attempts > 7 THEN "MEDIUM"
  ELSE "LOW"

\* The attempt counts handed to the classifier on its own: negative counts,
\* zero, and every count up to well above the last breakpoint.
AttemptCounts == -2..30

\* Detector._calculate_threat_level(attempts)
_calculate_threat_level(attempts) ==
  IF attempts >= 20 THEN "CRITICAL"
  ELSE IF attempts >= 10 THEN "HIGH"
  ELSE IF attempts >= 7 THEN "MEDIUM"
  ELSE "LOW"

\* CustomHashTable.insert(key, value) on the table as a function of its keys.
HT_insert(t, key, value) ==
  [k \in DOMAIN t \cup {key} |-> IF k = key THEN value ELSE t[k]]

\* The detector: its threshold, ip_tracker and threat_history.
Det(threshold, tracker, history) ==
  [threshold |-> threshold, ip_tracker |-> tracker, threat_history |-> history]

\* The threat detect_threats builds (its timestamp is left out).
Threat(ip, count) ==
  [ip |-> ip, attempts |-> count,
   threat_level |-> _calculate_threat_level(count)]

\* Faulty variant of the threshold test: the threshold itself is not enough.
IsThreat_Strict(count, threshold) == count > threshold

\* The test of detect_threats: an address is surfaced when its count reaches
\* the threshold.
IsThreat(count, threshold) == count >= threshold

\* The loop of detect_threats over failed_attempts.items(), a sequence of
\* <<ip, count>> in the order of the dict; acc is the detector and the
\* threats so far.
RECURSIVE detect_threats_loop(_, _)
detect_threats_loop(acc, items) ==
  IF items = <<>> THEN acc
  ELSE LET ip == Head(items)[1]
           count == Head(items)[2]
           tracker == HT_insert(acc.det.ip_tracker, ip, count)
       IN IF IsThreat(count, acc.det.threshold)
          THEN detect_threats_loop(
                 [det |-> Det(acc.det.threshold, tracker,
                              Append(acc.det.threat_history, Threat(ip, count))),
                  threats |-> Append(acc.threats, Threat(ip, count))],
                 Tail(items))
          ELSE detect_threats_loop(
                 [det |-> Det(acc.det.threshold, tracker,
                              acc.det.threat_history),
                  threats |-> acc.threats],
                 Tail(items))

\* Detector.detect_threats(failed_attempts): the detector afterwards and the
\* list returned.
detect_threats(det, failed_attempts) ==
  detect_threats_loop([det |-> det, threats |-> <<>>], failed_attempts)

\* Faulty variant of get_threat_summary: every threat sets the count of
\* its level to 1.
get_threat_summary_CountsOne(det) ==
  LET RECURSIVE count(_, _)
      count(level_counts, history) ==
        IF history = <<>> THEN level_counts
        ELSE count(HT_insert(level_counts, Head(history).threat_level, 1),
                   Tail(history))
  IN IF det.threat_history = <<>> THEN [total |-> 0, by_level |-> <<>>]
     ELSE [total |-> Len(det.threat_history),
           by_level |-> count(<<>>, det.threat_history)]

\* get_threat_summary(): the number of threats in the history and, per
\* level, a count kept in a hash table: (get(level) or 0) + 1 for every
\* threat.
get_threat_summary(det) ==
  LET RECURSIVE count(_, _)
      count(level_counts, history) ==
        IF history = <<>> THEN level_counts
        ELSE LET level == Head(history).threat_level
                 current == IF level \in DOMAIN level_counts
                              THEN level_counts[level]
                            ELSE 0
             IN count(HT_insert(level_counts, level, current + 1),
                      Tail(history))
  IN IF det.threat_history = <<>> THEN [total |-> 0, by_level |-> <<>>]
     ELSE [total |-> Len(det.threat_history),
           by_level |-> count(<<>>, det.threat_history)]

\* ------------------------------------------------------------------ HTTPDetector

\* The categories analyze_request appends to attack_types, in its order.
AttackCategories ==
  <<"SQL_INJECTION", "XSS", "PATH_TRAVERSAL", "COMMAND_INJECTION">>

\* x in list
Contains(list, x) == \E i \in 1..Len(list) : list[i] = x

\* The non-empty lists analyze_request can hand to the classifier: the
\* categories that matched, in the order it tests them.
AttackTypeLists ==
  {SelectSeq(AttackCategories, LAMBDA c : c \in S) :
     S \in (SUBSET {AttackCategories[i] : i \in 1..Len(AttackCategories)}) \ {{}}}

\* Faulty variant of the level of the matched categories: SQL and command
\* injection are not singled out.
HTTP_calculate_threat_level_ByCount(attack_types) ==
  IF Len(attack_types) >= 3 THEN "CRITICAL"
  ELSE IF Len(attack_types) >= 2 THEN "HIGH"
  ELSE "MEDIUM"

\* HTTPDetector._calculate_threat_level(attack_types)
HTTP_calculate_threat_level(attack_types) ==
  IF Len(attack_types) >= 3 THEN "CRITICAL"
  ELSE IF Contains(attack_types, "SQL_INJECTION")
          \/ Contains(attack_types, "COMMAND_INJECTION") THEN "HIGH"
  ELSE IF Len(attack_types) >= 2 THEN "HIGH"
  ELSE "MEDIUM"

\* The HTTP detector: its attack_tracker and detected_attacks.
HDet(tracker, attacks) ==
  [attack_tracker |-> tracker, detected_attacks |-> attacks]

\* analyze_request found nothing.
NoAttack == [ip |-> <<>>, attack_types |-> <<>>, threat_level |-> None]

\* CustomHashTable.get(key) or 0
HT_get_or_0(t, key) == IF key \in DOMAIN t THEN t[key] ELSE 0

\* Faulty variant of analyze_request: the tracker count of the address is
\* set to 1.
analyze_request_CountsOne(hd, ip_address, attack_types) ==
  IF attack_types = <<>> THEN [hd |-> hd, attack |-> NoAttack]
  ELSE LET attack_info ==
             [ip |-> ip_address, attack_types |-> attack_types,
              threat_level |-> HTTP_calculate_threat_level(attack_types)]
       IN [hd |-> HDet(HT_insert(hd.attack_tracker, ip_address,
                                 1),
                       Append(hd.detected_attacks, attack_info)),
           attack |-> attack_info]

\* HTTPDetector.analyze_request(ip_address, request_string), the request
\* given by the categories its four detect_ methods find in it, in the order
\* they are tested: the detector afterwards and the dict returned (the
\* request text and the timestamp are left out).
analyze_request(hd, ip_address, attack_types) ==
  IF attack_types = <<>> THEN [hd |-> hd, attack |-> NoAttack]
  ELSE LET attack_info ==
             [ip |-> ip_address, attack_types |-> attack_types,
              threat_level |-> HTTP_calculate_threat_level(attack_types)]
       IN [hd |-> HDet(HT_insert(hd.attack_tracker, ip_address,
                                 HT_get_or_0(hd.attack_tracker, ip_address) + 1),
                       Append(hd.detected_attacks, attack_info)),
           attack |-> attack_info]

\* get_attack_summary(): the number of attacks detected, the number of
\* addresses in the tracker (its len) and, per category, the number of
\* attacks it was found in.
get_attack_summary(hd) ==
  LET RECURSIVE of_types(_, _)
      of_types(counts, attack_types) ==
        IF attack_types = <<>> THEN counts
        ELSE of_types(HT_insert(counts, Head(attack_types),
                                HT_get_or_0(counts, Head(attack_types)) + 1),
                      Tail(attack_types))
      RECURSIVE of_attacks(_, _)
      of_attacks(counts, attacks) ==
        IF attacks = <<>> THEN counts
        ELSE of_attacks(of_types(counts, Head(attacks).attack_types),
                        Tail(attacks))
  IN IF hd.detected_attacks = <<>>
       THEN [total_attacks |-> 0, unique_ips |-> 0, by_type |-> <<>>]
     ELSE [total_attacks |-> Len(hd.detected_attacks),
           unique_ips |-> Cardinality(DOMAIN hd.attack_tracker),
           by_type |-> of_attacks(<<>>, hd.detected_attacks)]

\* ------------------------------------------------------------------ LogParser

\* Time is counted in ticks, TicksPerSecond of them in a second:
\* datetime.now() is finer than a second, the --since argument is not.
TicksPerSecond == 2

\* LogParser.__init__'s default lookback_minutes, in minutes and in ticks.
LookbackMinutes == 10
LookbackTicks == LookbackMinutes * 60 * TicksPerSecond

\* The number of lines _read_from_file keeps of the file.
TailLines == 200

\* strftime('%Y-%m-%d %H:%M:%S'): the fraction of the second is dropped.
strftime(t) == t - (t % TicksPerSecond)

\* The text of a log line, as far as the patterns can tell: the phrases in
\* it that some pattern looks for, in the order they stand in the line, each
\* with the address that follows it.
Phrase(words, ip) == [words |-> words, ip |-> ip]

\* LogParser.PATTERNS, in the order of the dict.
PATTERNS ==
  <<"failed_password", "invalid_user", "auth_failure", "connection_closed">>

\* The phrases a pattern matches.  "Failed password for invalid user u from
\* a" is matched by failed_password alone: invalid_user wants a capital I.
PatternWords(pattern_name) ==
  CASE pattern_name = "failed_password" ->
         {"Failed password for", "Failed password for invalid user"}
    [] pattern_name = "invalid_user" -> {"Invalid user"}
    [] pattern_name = "auth_failure" -> {"authentication failure; rhost="}
    [] pattern_name = "connection_closed" ->
         {"Connection closed by [preauth]",
          "Connection closed by authenticating user [preauth]"}

\* pattern.search(line) and the group that holds the address: the address of
\* the first phrase of the line that the pattern matches, or NoMatch.
search(pattern_name, text) ==
  LET hits == {i \in 1..Len(text) : text[i].words \in PatternWords(pattern_name)}
  IN IF hits = {} THEN NoMatch
     ELSE text[CHOOSE i \in hits : \A j \in hits : i <= j].ip

\* Faulty variant of the inner loop: the patterns are tried from the last
\* to the first.
RECURSIVE first_match_Reversed(_, _)
first_match_Reversed(patterns, text) ==
  IF patterns = <<>> THEN NoMatch
  ELSE IF search(patterns[Len(patterns)], text) # NoMatch
         THEN search(patterns[Len(patterns)], text)
  ELSE first_match_Reversed(SubSeq(patterns, 1, Len(patterns) - 1), text)

\* The inner loop of parse_lines: the address the first matching pattern
\* gives, in the order of PATTERNS, or NoMatch when no pattern matches.
RECURSIVE first_match(_, _)
first_match(patterns, text) ==
  IF patterns = <<>> THEN NoMatch
  ELSE IF search(Head(patterns), text) # NoMatch
         THEN search(Head(patterns), text)
  ELSE first_match(Tail(patterns), text)

\* d[ip] += 1 on a defaultdict(int), the dict being the sequence of its
\* items <<ip, count>> in the order the keys were inserted.
RECURSIVE dict_incr(_, _)
dict_incr(d, ip) ==
  IF d = <<>> THEN << <<ip, 1>> >>
  ELSE IF Head(d)[1] = ip THEN << <<ip, Head(d)[2] + 1>> >> \o Tail(d)
  ELSE <<Head(d)>> \o dict_incr(Tail(d), ip)

\* d.get(ip, 0)
RECURSIVE dict_get(_, _)
dict_get(d, ip) ==
  IF d = <<>> THEN 0
  ELSE IF Head(d)[1] = ip THEN Head(d)[2]
  ELSE dict_get(Tail(d), ip)

\* What _detect_logging_system finds on a host: what systemctl is-active
\* comes to (the unit that is active, none of the three, no systemctl on
\* the host, or no answer of it within the timeout for sshd and none active
\* after), and whether the log file exists.
Hosts ==
  [systemctl : {"sshd", "ssh", "openssh", "none active", "FileNotFoundError",
                "TimeoutExpired"},
   log_file_exists : BOOLEAN]

\* LogParser._detect_logging_system(): the value it leaves in
\* self.use_journalctl.  The journal is used when one of the units is
\* active, and also when none is and the log file does not exist.
_detect_logging_system(host) ==
  IF host.systemctl = "sshd" THEN TRUE
  ELSE IF host.systemctl \in {"ssh", "openssh"} THEN TRUE
  ELSE IF host.log_file_exists THEN FALSE
  ELSE TRUE

\* The parser: the source chosen when it was built, the resume point of the
\* journal and the cumulative ledger.
Parser(use_journalctl, last_timestamp, failed_attempts) ==
  [use_journalctl |-> use_journalctl, last_timestamp |-> last_timestamp,
   failed_attempts |-> failed_attempts]

\* The loop of parse_lines over the lines; acc holds self.failed_attempts
\* and new_attempts.
RECURSIVE parse_lines_loop(_, _)
parse_lines_loop(acc, lines) ==
  IF lines = <<>> THEN acc
  ELSE LET ip == first_match(PATTERNS, Head(lines).text)
       IN parse_lines_loop(
            IF ip = NoMatch THEN acc
            ELSE [failed_attempts |-> dict_incr(acc.failed_attempts, ip),
                  new_attempts |-> dict_incr(acc.new_attempts, ip)],
            Tail(lines))

\* Faulty variant of parse_lines: the cumulative counts are returned.
parse_lines_ReturnsTotals(p, lines) ==
  LET x == parse_lines_loop([failed_attempts |-> p.failed_attempts,
                             new_attempts |-> <<>>], lines)
  IN [parser |-> [p EXCEPT !.failed_attempts = x.failed_attempts],
      new_attempts |-> x.failed_attempts]

\* LogParser.parse_lines(lines): the parser afterwards and the dict returned.
parse_lines(p, lines) ==
  LET x == parse_lines_loop([failed_attempts |-> p.failed_attempts,
                             new_attempts |-> <<>>], lines)
  IN [parser |-> [p EXCEPT !.failed_attempts = x.failed_attempts],
      new_attempts |-> x.new_attempts]

\* lines[-n:]
LastN(lines, n) ==
  IF Len(lines) <= n THEN lines
  ELSE SubSeq(lines, Len(lines) - n + 1, Len(lines))

\* What a read gives: the parser afterwards, the lines returned, and the
\* exception that left the call (None when it returned).
ReadResult(p, lines, raised) ==
  [parser |-> p, lines |-> lines, raised |-> raised]

\* What opening and reading the log file can come to: it is read; it is not
\* there; it may not be read and sudo tail reads it, or fails as well; any
\* other error of open() or readlines() (a directory at the path, bytes that
\* are not valid text, an I/O error of the device).
FileOutcomes ==
  {"ok", "FileNotFoundError", "PermissionError, tail ok",
   "PermissionError, tail failed", "OSError"}

\* Faulty variant of the file read: the file is read through the handle
\* opened before the rotation, so the lines of the rotated file come first.
_read_from_file_StaleHandle(p, fs, outcome) ==
  IF outcome \in {"ok", "PermissionError, tail ok"}
    THEN ReadResult(p, LastN(fs.rotated \o fs.lines, TailLines), None)
  ELSE IF outcome = "OSError" THEN ReadResult(p, <<>>, "OSError")
  ELSE ReadResult(p, <<>>, None)

\* LogParser._read_from_file() on the file fs at the path: the last
\* TailLines lines of whatever the file holds now.  PermissionError and
\* FileNotFoundError are caught, other exceptions are not.
_read_from_file(p, fs, outcome) ==
  IF outcome \in {"ok", "PermissionError, tail ok"}
    THEN ReadResult(p, LastN(fs.lines, TailLines), None)
  ELSE IF outcome = "OSError" THEN ReadResult(p, <<>>, "OSError")
  ELSE ReadResult(p, <<>>, None)

\* What the journalctl queries can come to: one of the three units gives
\* output with status 0; none does; the query times out; running it fails.
JournalOutcomes == {"ok", "no output", "TimeoutExpired", "Exception"}

\* The --since argument of the query made at time now.
since_str(p, now) ==
  IF p.last_timestamp # NoTimestamp THEN strftime(p.last_timestamp)
  ELSE strftime(now - LookbackTicks)

\* journalctl --since: the entries stamped at or after the instant given.
journalctl(journal, since) == SelectSeq(journal, LAMBDA en : en.ts >= since)

\* Faulty variant of the journal read: a query that fails makes the parser
\* turn to the log file.
_read_from_journalctl_FallsBack(p, journal, now, outcome) ==
  LET p1 == [p EXCEPT !.last_timestamp = now]
  IN IF outcome = "ok"
       THEN ReadResult(p1, journalctl(journal, since_str(p, now)), None)
     ELSE IF outcome = "Exception"
       THEN ReadResult([p1 EXCEPT !.use_journalctl = FALSE], <<>>, None)
     ELSE ReadResult(p1, <<>>, None)

\* LogParser._read_from_journalctl() at time now: last_timestamp is set to
\* now before the query is made, whatever the query comes to.
_read_from_journalctl(p, journal, now, outcome) ==
  LET p1 == [p EXCEPT !.last_timestamp = now]
  IN IF outcome = "ok"
       THEN ReadResult(p1, journalctl(journal, since_str(p, now)), None)
     ELSE ReadResult(p1, <<>>, None)

\* LogParser.read_new_entries()
read_new_entries(p, fs, journal, now, outcome) ==
  IF p.use_journalctl THEN _read_from_journalctl(p, journal, now, outcome)
  ELSE _read_from_file(p, fs, outcome)

\* LogParser.scan_once(): an exception of the read leaves through it.
scan_once(p, fs, journal, now, outcome) ==
  LET r == read_new_entries(p, fs, journal, now, outcome)
      x == parse_lines(r.parser, r.lines)
  IN IF r.raised # None
       THEN [parser |-> r.parser, lines |-> <<>>, raised |-> r.raised,
             new_attempts |-> <<>>]
     ELSE [parser |-> x.parser, lines |-> r.lines, raised |-> None,
           new_attempts |-> x.new_attempts]

\* LogParser.get_all_attempts(): a copy of the ledger.
get_all_attempts(p) == p.failed_attempts

\* LogParser.reset()
reset(p) == [p EXCEPT !.failed_attempts = <<>>]

\* ------------------------------------------------------------------ IDS scan cycle

\* The addresses of the simulated SSH attacks and of the two sample HTTP
\* requests: 203.0.113.50, 45.76.123.45, 198.51.100.100, 192.168.1.200 and
\* 192.168.1.201.  None of them extends another.
Demo50 == <<"d", "a">>
Demo45 == <<"d", "b">>
Demo100 == <<"d", "c">>
Http200 == <<"h", "a">>
Http201 == <<"h", "b">>
CycleAddrs == Addrs \cup {Demo50, Demo45, Demo100, Http200, Http201}

\* Dicts random.randint can make of demo_ips: of the ranges 6..12, 8..15
\* and 3..7 the ends and the counts at which the threshold or a level is
\* reached.
DemoAttempts ==
  {<< <<Demo50, r1>>, <<Demo45, r2>>, <<Demo100, r3>> >> :
     r1 \in {6, 7, 10, 12}, r2 \in {8, 10, 15}, r3 \in {3, 5, 7}}

\* sample_requests of _scan_http_attacks, each with the categories the
\* detect_ methods find in it.
sample_requests ==
  << <<Http200, <<"SQL_INJECTION">> >>, <<Http201, <<"XSS">> >> >>

\* The largest number of _block_ip calls in one cycle.
MaxBlocksPerCycle == 3

\* What the orchestrator acts on in a cycle, and what the cycle has done so
\* far: the Blocker's state, the database, the detector, the HTTP detector
\* and the parser; the exception that ended the cycle, the failed_attempts
\* handed to the detector, the threats and attacks found, the _block_ip
\* calls made, the events logged, the iptables invocations made, and the
\* outcomes left for the iptables invocations to come.
World(b, d, det, hd, p) ==
  [b |-> b, d |-> d, det |-> det, hd |-> hd, p |-> p, raised |-> None,
   new_attempts |-> <<>>, failed_attempts |-> <<>>, threats |-> <<>>,
   blocks |-> <<>>, log |-> <<>>, fw |-> <<>>, oks |-> <<>>]

\* An event of the activity log.
Event(kind, ip) == [kind |-> kind, ip |-> ip]

\* self._block_ip(ip, reason) inside a cycle: the next outcome is used up by
\* the call.
cycle_block_ip(w, ip) ==
  LET x == IDS_block_ip(w.b, w.d, ip, Head(w.oks))
  IN [w EXCEPT !.b = x.r.b, !.d = x.d,
               !.blocks = Append(@, [ip |-> ip, ret |-> x.r.ret, fw |-> x.r.fw]),
               !.log = Append(@, Event(x.log[1], ip)),
               !.fw = @ \o x.r.fw,
               !.oks = Tail(@)]

\* The loop of _scan_ssh_attacks over the threats.
RECURSIVE ssh_respond(_, _)
ssh_respond(w, threats) ==
  IF threats = <<>> THEN w
  ELSE LET threat == Head(threats)
           w1 == [w EXCEPT
                    !.log = Append(@, Event("THREAT", threat.ip)),
                    !.d = save_threat(@, threat.ip, threat.attempts,
                                      threat.threat_level, "SSH brute force"),
                    !.threats = Append(@, threat)]
       IN ssh_respond(IF threat.threat_level \in {"HIGH", "CRITICAL"}
                        THEN cycle_block_ip(w1, threat.ip)
                      ELSE w1,
                      Tail(threats))

\* Lines 135-158 of _scan_ssh_attacks: the detector is given
\* failed_attempts and every threat is answered.
ssh_detect_and_respond(w, failed_attempts) ==
  LET x == detect_threats(w.det, failed_attempts)
  IN ssh_respond([w EXCEPT !.det = x.det,
                           !.failed_attempts = failed_attempts],
                 x.threats)

\* IDS._scan_ssh_attacks().  In demo mode every third cycle makes up
\* demo_attempts and the others return at once.  In real mode the parser
\* scans, and then self.parser.attempts is read: LogParser has no such
\* attribute (its ledger is failed_attempts), so AttributeError is raised.
_scan_ssh_attacks(w, demo_mode, scan_count, demo_attempts, fs, journal, now, outcome) ==
  IF demo_mode
    THEN IF scan_count % 3 = 0 THEN ssh_detect_and_respond(w, demo_attempts)
         ELSE w
  ELSE LET x == scan_once(w.p, fs, journal, now, outcome)
       IN [w EXCEPT !.p = x.parser, !.new_attempts = x.new_attempts,
                    !.raised = IF x.raised # None THEN x.raised
                               ELSE "AttributeError"]

\* The loop of _scan_http_attacks over sample_requests.
RECURSIVE http_respond(_, _)
http_respond(w, requests) ==
  IF requests = <<>> THEN w
  ELSE LET ip == Head(requests)[1]
           x == analyze_request(w.hd, ip, Head(requests)[2])
           attack == x.attack
           w1 == [w EXCEPT
                    !.hd = x.hd,
                    !.log = Append(@, Event("HTTP_ATTACK", ip)),
                    !.d = save_threat(@, ip, Len(attack.attack_types),
                                      attack.threat_level, "HTTP"),
                    !.threats = Append(@, [ip |-> ip,
                                           attempts |-> Len(attack.attack_types),
                                           threat_level |-> attack.threat_level])]
       IN http_respond(IF attack = NoAttack THEN [w EXCEPT !.hd = x.hd]
                       ELSE IF attack.threat_level \in {"HIGH", "CRITICAL"}
                         THEN cycle_block_ip(w1, ip)
                       ELSE w1,
                       Tail(requests))

\* IDS._scan_http_attacks()
_scan_http_attacks(w) == http_respond(w, sample_requests)

\* IDS.scan_and_respond(): an exception of the SSH scan leaves through it.
scan_and_respond(w, demo_mode, enable_http, scan_count, demo_attempts, fs, journal, now, outcome) ==
  LET w1 == _scan_ssh_attacks(w, demo_mode, scan_count, demo_attempts, fs,
                              journal, now, outcome)
  IN IF w1.raised # None THEN w1
     ELSE IF enable_http THEN _scan_http_attacks(w1)
     ELSE w1

\* ------------------------------------------------------------------ main(): the process step by step

\* The exit code of a process that has not exited.
NoExit == -1

\* The ways main() runs the loop: no argument, --ssh-only, --real; and the
\* demo_mode and enable_http each passes to IDS().
Modes == {"default", "--ssh-only", "--real"}
demo_mode_of(mode) == mode # "--real"
enable_http_of(mode) == mode # "--ssh-only"

\* A step the process has before it: a statement or a call, with its
\* argument.
Task(t, arg) == [t |-> t, arg |-> arg]

\* A call: the steps of the callee are taken before the rest of the caller.
call(rest, body) == body \o rest

\* What main() has before it when IDS() has returned: it installs the
\* handler of SIGINT and calls ids.start().
MainTasks ==
  <<Task("signal.signal", <<>>), Task("ids.start", <<>>),
    Task("main returns", <<>>)>>

\* The process: the mode, the steps before it, whether signal_handler is
\* installed, the exit code, whether SIGINT has come and the steps that
\* were before the process then, the number of session summaries printed,
\* the cycles begun and ended, the world of the cycle in flight (see World)
\* with the world it began in and what the environment held for it (cyc:
\* the counts made up in demo mode, what reading the log came to, the
\* outcomes of its iptables invocations so far), and of the _block_ip call
\* in flight the outcome iptables has for it, the invocations made and the
\* value block_ip returned.
Process(mode, w) ==
  [mode |-> mode, tasks |-> MainTasks, handler |-> FALSE,
   exit_code |-> NoExit, signalled |-> FALSE, cut |-> <<>>, summaries |-> 0,
   began |-> {}, ended |-> {}, w |-> w, w0 |-> w,
   cyc |-> [demo_attempts |-> <<>>, outcome |-> "ok", oks |-> <<>>],
   ok |-> FALSE, call_fw |-> <<>>, ret |-> FALSE, built |-> TRUE]

\* What a step leaves: the process and the IDS object.
Stepped(pr, i) == [proc |-> pr, ids |-> i]

\* The parameters LogParser.__init__ takes besides self.
LogParser_params == {"log_file", "lookback_minutes"}

\* LogParser(**kwargs) on the host h: a keyword that is no parameter of
\* __init__ raises TypeError; otherwise the parser is laid out and the
\* source detected.
LogParser_init(kwargs, h) ==
  IF ~(kwargs \subseteq LogParser_params)
    THEN [raised |-> "TypeError",
          parser |-> Parser(FALSE, NoTimestamp, <<>>)]
  ELSE [raised |-> None,
        parser |-> Parser(_detect_logging_system(h), NoTimestamp, <<>>)]

\* IDS(threshold, interval, enable_http, demo_mode) in the world w: the
\* components are built in the order of __init__, the parser first, as
\* LogParser(interval=interval); an exception leaves __init__ at once.
IDS_init(w, threshold, interval, enable_http, demo_mode, h) ==
  LET p == LogParser_init({"interval"}, h)
  IN IF p.raised # None
       THEN [w |-> [w EXCEPT !.raised = p.raised], built |-> FALSE]
     ELSE [w |-> [w EXCEPT !.p = p.parser,
                           !.det = Det(threshold, <<>>, <<>>),
                           !.hd = HDet(<<>>, <<>>),
                           !.b = Blocker_init(w.b)],
           built |-> TRUE]

\* main() from its first statement: ids = IDS(threshold, interval, ...) is
\* still to be made, on the host h.
Boot(mode, w, threshold, interval, h) ==
  [Process(mode, w) EXCEPT
     !.tasks = <<Task("IDS", [threshold |-> threshold, interval |-> interval,
                              host |-> h])>> \o @,
     !.built = FALSE]

\* ids = IDS(...)
step_IDS(pr, i, arg) ==
  LET x == IDS_init(pr.w, arg.threshold, arg.interval, enable_http_of(pr.mode),
                    demo_mode_of(pr.mode), arg.host)
  IN Stepped([pr EXCEPT !.w = x.w, !.built = x.built, !.tasks = Tail(@)], i)

\* ids.start() up to the loop: self.running = True.
step_start(pr, i) ==
  Stepped([pr EXCEPT !.tasks = call(Tail(@), <<Task("while", <<>>)>>)],
          [i EXCEPT !.running = TRUE])

\* while self.running: one turn of the loop is scan_and_respond(),
\* scan_count += 1 and time.sleep(interval); when running is false start()
\* returns.
step_while(pr, i) ==
  Stepped([pr EXCEPT !.tasks =
             IF i.running
               THEN call(Tail(@), <<Task("scan_and_respond", <<>>),
                                    Task("scan_count += 1", <<>>),
                                    Task("time.sleep", <<>>),
                                    Task("while", <<>>)>>)
             ELSE Tail(@)],
          i)

\* Faulty variant of scan_and_respond: the scans are put off, as if handed
\* to a worker, and the loop goes on before they are made.
step_scan_and_respond_Deferred(pr, i, w, cyc) ==
  Stepped([pr EXCEPT
             !.began = @ \cup {i.scan_count},
             !.w = w, !.w0 = w, !.cyc = cyc,
             !.tasks =
               Tail(@)
                 \o <<Task("_scan_ssh_attacks", <<>>),
                      Task("scan_and_respond returns", <<>>)>>],
          i)

\* scan_and_respond() is entered: a cycle begins, in the world w with the
\* environment cyc; it calls _scan_ssh_attacks and, if enabled,
\* _scan_http_attacks, and returns.
step_scan_and_respond(pr, i, w, cyc) ==
  Stepped([pr EXCEPT
             !.began = @ \cup {i.scan_count},
             !.w = w, !.w0 = w, !.cyc = cyc,
             !.tasks =
               call(Tail(@),
                    <<Task("_scan_ssh_attacks", <<>>)>>
                      \o (IF i.enable_http
                            THEN <<Task("_scan_http_attacks", <<>>)>>
                          ELSE <<>>)
                      \o <<Task("scan_and_respond returns", <<>>)>>)],
          i)

\* _scan_ssh_attacks() up to the loop over the threats.  In demo mode
\* every third cycle hands demo_attempts to the detector; in real mode the
\* parser scans and self.parser.attempts raises (see _scan_ssh_attacks).
step_scan_ssh_attacks(pr, i, fs, journal, now) ==
  IF i.demo_mode
    THEN IF i.scan_count % 3 = 0
           THEN LET x == detect_threats(pr.w.det, pr.cyc.demo_attempts)
                IN Stepped(
                     [pr EXCEPT
                        !.w = [@ EXCEPT !.det = x.det,
                                        !.failed_attempts = pr.cyc.demo_attempts],
                        !.tasks = call(Tail(@),
                                       [k \in 1..Len(x.threats) |->
                                          Task("SSH threat", x.threats[k])])],
                     i)
         ELSE Stepped([pr EXCEPT !.tasks = Tail(@)], i)
  ELSE Stepped([pr EXCEPT
                  !.w = _scan_ssh_attacks(@, FALSE, i.scan_count, <<>>, fs,
                                          journal, now, pr.cyc.outcome),
                  !.tasks = Tail(@)],
               i)

\* The body of the loop over the threats: the threat is logged and saved
\* and, at level HIGH or CRITICAL, _block_ip is called.
step_ssh_threat(pr, i, threat) ==
  Stepped([pr EXCEPT
             !.w = [@ EXCEPT
                      !.log = Append(@, Event("THREAT", threat.ip)),
                      !.d = save_threat(@, threat.ip, threat.attempts,
                                        threat.threat_level, "SSH brute force"),
                      !.threats = Append(@, threat)],
             !.tasks = IF threat.threat_level \in {"HIGH", "CRITICAL"}
                         THEN call(Tail(@), <<Task("_block_ip", threat.ip)>>)
                       ELSE Tail(@)],
          i)

\* _scan_http_attacks(): the loop over sample_requests.
step_scan_http_attacks(pr, i) ==
  Stepped([pr EXCEPT
             !.tasks = call(Tail(@),
                            [k \in 1..Len(sample_requests) |->
                               Task("HTTP request", sample_requests[k])])],
          i)

\* The body of the loop over the requests: the request is analysed, an
\* attack is logged and saved and, at level HIGH or CRITICAL, _block_ip is
\* called.
step_http_request(pr, i, request) ==
  LET ip == request[1]
      x == analyze_request(pr.w.hd, ip, request[2])
      attack == x.attack
  IN IF attack = NoAttack
       THEN Stepped([pr EXCEPT !.w = [@ EXCEPT !.hd = x.hd],
                               !.tasks = Tail(@)], i)
     ELSE Stepped(
            [pr EXCEPT
               !.w = [@ EXCEPT
                        !.hd = x.hd,
                        !.log = Append(@, Event("HTTP_ATTACK", ip)),
                        !.d = save_threat(@, ip, Len(attack.attack_types),
                                          attack.threat_level, "HTTP"),
                        !.threats =
                          Append(@, [ip |-> ip,
                                     attempts |-> Len(attack.attack_types),
                                     threat_level |-> attack.threat_level])],
               !.tasks = IF attack.threat_level \in {"HIGH", "CRITICAL"}
                           THEN call(Tail(@), <<Task("_block_ip", ip)>>)
                         ELSE Tail(@)],
            i)

\* self._block_ip(ip, reason): it calls blocker.block_ip(ip) and then
\* records what that returned.  ok is the outcome iptables has for the
\* call.
step_block_ip_call(pr, i, ip, ok) ==
  Stepped([pr EXCEPT
             !.ok = ok, !.call_fw = <<>>,
             !.cyc = [@ EXCEPT !.oks = Append(@, ok)],
             !.tasks = call(Tail(@), <<Task("block_ip", ip),
                                       Task("_block_ip records", ip)>>)],
          i)

\* blocker.block_ip(ip) up to the invocation: an address in the list is
\* answered with True at once.
step_block_ip(pr, i, ip) ==
  IF LL_search(pr.w.b.list, ip)
    THEN Stepped([pr EXCEPT !.ret = TRUE, !.tasks = Tail(@)], i)
  ELSE Stepped([pr EXCEPT
                  !.tasks = call(Tail(@), <<Task("subprocess.run", ip)>>)], i)

\* subprocess.run of iptables -A in block_ip: when it returns 0 the rule is
\* in the chain and block_ip goes on to record the address; otherwise
\* block_ip returns False.
step_subprocess_run(pr, i, ip) ==
  Stepped([pr EXCEPT
             !.w = [@ EXCEPT
                      !.b = IF pr.ok
                              THEN BState(@.list, @.file, iptables_A(@.ipt, ip))
                            ELSE @,
                      !.fw = Append(@, FwCall("A", ip, pr.ok))],
             !.call_fw = Append(@, FwCall("A", ip, pr.ok)),
             !.ret = IF pr.ok THEN @ ELSE FALSE,
             !.tasks = IF pr.ok
                         THEN call(Tail(@),
                                   <<Task("blocked_ips_list.append", ip),
                                     Task("_save_to_file", ip)>>)
                       ELSE Tail(@)],
          i)

\* self.blocked_ips_list.append(ip) in block_ip
step_list_append(pr, i, ip) ==
  Stepped([pr EXCEPT
             !.w = [@ EXCEPT
                      !.b = BState(LL_append(@.list, ip), @.file, @.ipt)],
             !.tasks = Tail(@)],
          i)

\* self._save_to_file(ip) in block_ip, which then returns True
step_save_to_file(pr, i, ip) ==
  Stepped([pr EXCEPT
             !.w = [@ EXCEPT
                      !.b = BState(@.list, _save_to_file(@.file, ip), @.ipt)],
             !.ret = TRUE,
             !.tasks = Tail(@)],
          i)

\* The rest of _block_ip: on True the block is written to the database and
\* logged as BLOCK, on False an ERROR is logged.
step_block_ip_records(pr, i, ip) ==
  Stepped([pr EXCEPT
             !.w = [@ EXCEPT
                      !.d = IF pr.ret
                              THEN save_blocked_ip(mark_as_blocked(@, ip), ip)
                            ELSE @,
                      !.blocks = Append(@, [ip |-> ip, ret |-> pr.ret,
                                            fw |-> pr.call_fw]),
                      !.log = Append(@, Event(IF pr.ret THEN "BLOCK"
                                              ELSE "ERROR", ip))],
             !.tasks = Tail(@)],
          i)

\* scan_and_respond() returns: the cycle has ended.
step_returns(pr, i) ==
  Stepped([pr EXCEPT !.ended = @ \cup {i.scan_count}, !.tasks = Tail(@)], i)

\* self.scan_count += 1
step_count(pr, i) ==
  Stepped([pr EXCEPT !.tasks = Tail(@)], [i EXCEPT !.scan_count = @ + 1])

\* The step the process takes next.
\* ids.start() has returned and main() returns: the interpreter exits with
\* 0. start() returns when running is false at the head of the loop.
exit_on_return(pr) == [pr EXCEPT !.tasks = <<>>, !.exit_code = 0]

step(pr, i, w, cyc, ok, fs, journal, now) ==
  LET task == Head(pr.tasks)
  IN CASE task.t = "signal.signal" ->
            Stepped([pr EXCEPT !.handler = TRUE, !.tasks = Tail(@)], i)
       [] task.t = "ids.start" -> step_start(pr, i)
       [] task.t = "while" -> step_while(pr, i)
       [] task.t = "scan_and_respond" -> step_scan_and_respond(pr, i, w, cyc)
       [] task.t = "_scan_ssh_attacks" ->
            step_scan_ssh_attacks(pr, i, fs, journal, now)
       [] task.t = "SSH threat" -> step_ssh_threat(pr, i, task.arg)
       [] task.t = "_scan_http_attacks" -> step_scan_http_attacks(pr, i)
       [] task.t = "HTTP request" -> step_http_request(pr, i, task.arg)
       [] task.t = "_block_ip" -> step_block_ip_call(pr, i, task.arg, ok)
       [] task.t = "block_ip" -> step_block_ip(pr, i, task.arg)
       [] task.t = "subprocess.run" -> step_subprocess_run(pr, i, task.arg)
       [] task.t = "blocked_ips_list.append" ->
            step_list_append(pr, i, task.arg)
       [] task.t = "_save_to_file" -> step_save_to_file(pr, i, task.arg)
       [] task.t = "_block_ip records" ->
            step_block_ip_records(pr, i, task.arg)
       [] task.t = "scan_and_respond returns" -> step_returns(pr, i)
       [] task.t = "scan_count += 1" -> step_count(pr, i)
       [] task.t = "time.sleep" -> Stepped([pr EXCEPT !.tasks = Tail(@)], i)
       [] task.t = "main returns" -> Stepped(exit_on_return(pr), i)
       [] task.t = "IDS" -> step_IDS(pr, i, task.arg)

\* An exception leaves the loop: start() catches KeyboardInterrupt alone;
\* main() catches it in the default mode and calls sys.exit(1), and in the
\* other modes the interpreter prints the traceback and exits with 1.
exit_on_exception(pr) == [pr EXCEPT !.tasks = <<>>, !.exit_code = 1]

\* SIGINT while signal_handler is installed: ids.stop() sets running to
\* False and prints the session summary, then sys.exit(0) raises SystemExit
\* where the process stands; neither block_ip's except Exception nor
\* start() nor main() catches it, and the process exits with 0.
signal_handler(pr, i) ==
  Stepped([pr EXCEPT !.signalled = TRUE, !.cut = pr.tasks,
                     !.summaries = @ + 1, !.tasks = <<>>, !.exit_code = 0],
          [i EXCEPT !.running = FALSE])

\* SIGINT before signal_handler is installed: KeyboardInterrupt is raised in
\* main(), where nothing catches it; the interpreter ends the process by
\* the signal, which the shell reports as 130.
default_int_handler(pr, i) ==
  Stepped([pr EXCEPT !.signalled = TRUE, !.cut = pr.tasks, !.tasks = <<>>,
                     !.exit_code = 130],
          i)

\* ------------------------------------------------------------------ custom_structures.py, node by node

\* A reference to no node: None in head, next, front and rear.  The nodes
\* live in a heap, a function from addresses 1, 2, ... to nodes.
Nil == 0

\* Node(data) and QueueNode(data), next set afterwards.
Node(data, next) == [data |-> data, next |-> next]

\* The address a new node gets: the lowest one that is free.
new_address(heap) ==
  CHOOSE a \in 1..(Cardinality(DOMAIN heap) + 1) :
    a \notin DOMAIN heap /\ \A b \in 1..(a - 1) : b \in DOMAIN heap

\* A node no reference is left to is freed.
freed(heap, a) == [b \in DOMAIN heap \ {a} |-> heap[b]]

\* CustomLinkedList()
CustomLinkedList_init == [head |-> Nil, size |-> 0, heap |-> <<>>]

\* append(data): the new node becomes the head of an empty list, or the
\* next of the node that has no next.
CustomLinkedList_append(l, data) ==
  LET new_node == new_address(l.heap)
      heap == l.heap @@ (new_node :> Node(data, Nil))
      RECURSIVE last(_)
      last(current) ==
        IF l.heap[current].next # Nil THEN last(l.heap[current].next)
        ELSE current
  IN IF l.head = Nil
       THEN [head |-> new_node, size |-> l.size + 1, heap |-> heap]
     ELSE [head |-> l.head, size |-> l.size + 1,
           heap |-> [heap EXCEPT ![last(l.head)].next = new_node]]

\* search(data): the chain is walked from the head.
CustomLinkedList_search(l, data) ==
  LET RECURSIVE walk(_)
      walk(current) ==
        IF current = Nil THEN FALSE
        ELSE IF l.heap[current].data = data THEN TRUE
        ELSE walk(l.heap[current].next)
  IN walk(l.head)

\* Faulty variant of remove: the head is unlinked and the size is left as
\* it was.
CustomLinkedList_remove_KeepsSize(l, data) ==
  LET RECURSIVE walk(_)
      walk(current) ==
        LET next == l.heap[current].next
        IN IF next = Nil THEN [l |-> l, ret |-> FALSE]
           ELSE IF l.heap[next].data = data
             THEN [l |-> [head |-> l.head, size |-> l.size - 1,
                          heap |-> freed([l.heap EXCEPT ![current].next =
                                            l.heap[next].next], next)],
                   ret |-> TRUE]
           ELSE walk(next)
  IN IF l.head = Nil THEN [l |-> l, ret |-> FALSE]
     ELSE IF l.heap[l.head].data = data
       THEN [l |-> [head |-> l.heap[l.head].next, size |-> l.size,
                    heap |-> freed(l.heap, l.head)],
             ret |-> TRUE]
     ELSE walk(l.head)

\* remove(data): the head is unlinked if it holds data; otherwise the first
\* node whose next holds data gets that node's next.  The list after the
\* call and the value returned.
CustomLinkedList_remove(l, data) ==
  LET RECURSIVE walk(_)
      walk(current) ==
        LET next == l.heap[current].next
        IN IF next = Nil THEN [l |-> l, ret |-> FALSE]
           ELSE IF l.heap[next].data = data
             THEN [l |-> [head |-> l.head, size |-> l.size - 1,
                          heap |-> freed([l.heap EXCEPT ![current].next =
                                            l.heap[next].next], next)],
                   ret |-> TRUE]
           ELSE walk(next)
  IN IF l.head = Nil THEN [l |-> l, ret |-> FALSE]
     ELSE IF l.heap[l.head].data = data
       THEN [l |-> [head |-> l.heap[l.head].next, size |-> l.size - 1,
                    heap |-> freed(l.heap, l.head)],
             ret |-> TRUE]
     ELSE walk(l.head)

\* to_list() of a list or a queue: the data of the chain from first on.
chain_to_list(heap, first) ==
  LET RECURSIVE walk(_)
      walk(current) ==
        IF current = Nil THEN <<>>
        ELSE <<heap[current].data>> \o walk(heap[current].next)
  IN walk(first)

CustomLinkedList_to_list(l) == chain_to_list(l.heap, l.head)

\* __len__ of the list and of the queue: the size field.
structure_len(s) == s.size

\* CustomQueue()
CustomQueue_init == [front |-> Nil, rear |-> Nil, size |-> 0, heap |-> <<>>]

is_empty(q) == q.front = Nil

\* enqueue(data)
CustomQueue_enqueue(q, data) ==
  LET new_node == new_address(q.heap)
      heap == q.heap @@ (new_node :> Node(data, Nil))
  IN IF is_empty(q)
       THEN [front |-> new_node, rear |-> new_node, size |-> q.size + 1,
             heap |-> heap]
     ELSE [front |-> q.front, rear |-> new_node, size |-> q.size + 1,
           heap |-> [heap EXCEPT ![q.rear].next = new_node]]

\* Faulty variant of dequeue: rear is left pointing at the node taken out.
CustomQueue_dequeue_KeepsRear(q) ==
  IF is_empty(q) THEN [q |-> q, ret |-> None]
  ELSE [q |-> [front |-> q.heap[q.front].next, rear |-> q.rear,
               size |-> q.size - 1, heap |-> freed(q.heap, q.front)],
        ret |-> q.heap[q.front].data]

\* dequeue(): the queue after the call and the value returned.
CustomQueue_dequeue(q) ==
  IF is_empty(q) THEN [q |-> q, ret |-> None]
  ELSE LET front == q.heap[q.front].next
       IN [q |-> [front |-> front,
                  rear |-> IF front = Nil THEN Nil ELSE q.rear,
                  size |-> q.size - 1, heap |-> freed(q.heap, q.front)],
           ret |-> q.heap[q.front].data]

\* peek()
CustomQueue_peek(q) == IF is_empty(q) THEN None ELSE q.heap[q.front].data

CustomQueue_to_list(q) == chain_to_list(q.heap, q.front)

\* CustomHashTable(size): size empty buckets.  Bucket i of the code is
\* table[i + 1] here; a bucket is the sequence of its (key, value) pairs.
CustomHashTable_init(size) ==
  [size |-> size, table |-> [i \in 1..size |-> <<>>], count |-> 0]

\* _hash_function(key): hash(key) % size, hash being Python's, which for
\* text differs from process to process.
_hash_function(t, hash, key) == hash[key] % t.size

\* The place of key in a bucket, 0 if it is not there.
index_in(bucket, key) ==
  IF \E i \in 1..Len(bucket) : bucket[i][1] = key
    THEN CHOOSE i \in 1..Len(bucket) :
           /\ bucket[i][1] = key
           /\ \A j \in 1..(i - 1) : bucket[j][1] # key
  ELSE 0

\* insert(key, value)
CustomHashTable_insert(t, hash, key, value) ==
  LET index == _hash_function(t, hash, key) + 1
      bucket == t.table[index]
      i == index_in(bucket, key)
  IN IF i # 0
       THEN [t EXCEPT !.table[index][i] = <<key, value>>]
     ELSE [t EXCEPT !.table[index] = Append(bucket, <<key, value>>),
                    !.count = @ + 1]

\* get(key)
CustomHashTable_get(t, hash, key) ==
  LET bucket == t.table[_hash_function(t, hash, key) + 1]
      i == index_in(bucket, key)
  IN IF i # 0 THEN bucket[i][2] ELSE None

\* Faulty variant of delete: the pair is taken out of the bucket and the
\* count is left as it was.
CustomHashTable_delete_KeepsCount(t, hash, key) ==
  LET index == _hash_function(t, hash, key) + 1
      bucket == t.table[index]
      i == index_in(bucket, key)
  IN IF i # 0
       THEN [t |-> [t EXCEPT !.table[index] =
                      SubSeq(bucket, 1, i - 1)
                        \o SubSeq(bucket, i + 1, Len(bucket))],
             ret |-> TRUE]
     ELSE [t |-> t, ret |-> FALSE]

\* delete(key): the table after the call and the value returned.
CustomHashTable_delete(t, hash, key) ==
  LET index == _hash_function(t, hash, key) + 1
      bucket == t.table[index]
      i == index_in(bucket, key)
  IN IF i # 0
       THEN [t |-> [t EXCEPT !.table[index] =
                      SubSeq(bucket, 1, i - 1)
                        \o SubSeq(bucket, i + 1, Len(bucket)),
                    !.count = @ - 1],
             ret |-> TRUE]
     ELSE [t |-> t, ret |-> FALSE]

\* contains(key): get(key) is not None.
CustomHashTable_contains(t, hash, key) == CustomHashTable_get(t, hash, key) # None

\* keys(): bucket after bucket.
CustomHashTable_keys(t) ==
  LET RECURSIVE of_bucket(_)
      of_bucket(bucket) ==
        IF bucket = <<>> THEN <<>>
        ELSE <<Head(bucket)[1]>> \o of_bucket(Tail(bucket))
      RECURSIVE from(_)
      from(i) ==
        IF i > t.size THEN <<>> ELSE of_bucket(t.table[i]) \o from(i + 1)
  IN from(1)

\* __len__ of the table: the count field.
CustomHashTable_len(t) == t.count

\* ------------------------------------------------------------------ state

VARIABLES
  blocked_ips_list,  \* Blocker.blocked_ips_list
  blocked_ips_file,  \* the content of data/blocked_ips.txt
  iptables,          \* the INPUT chain: DROP rules per address
  db_threats,        \* table threats of data/ids.db
  db_blocked_ips,    \* table blocked_ips of data/ids.db
  last,              \* the call made last: what it was given, found and did
  prev,              \* the call made before it
  fw_last,           \* per address, the last iptables command that succeeded
  ncalls,            \* number of calls made so far
  detector,          \* Detector: threshold, ip_tracker, threat_history
  det_last,          \* the last detect_threats call: its argument and result
  det_calls,         \* number of detect_threats calls made so far
  cls_last,          \* the last Detector._calculate_threat_level call
  http_cls_last,     \* the last HTTPDetector._calculate_threat_level call
  clock,             \* the time, in ticks
  log_entries,       \* the lines sshd has written, oldest first
  file_ino,          \* the identity of the file now at the log path
  file_start,        \* number of lines that went away with rotated files
  parser,            \* LogParser: use_journalctl, last_timestamp, failed_attempts
  rd_last,           \* the scan_once call made last
  rd_prev,           \* the scan_once call made before it
  seen,              \* the lines returned by the reads made so far
  rd_calls,          \* number of scan_once calls made so far
  host,              \* what _detect_logging_system found when the parser was built
  pl_last,           \* the call of a LogParser method made last
  deltas,            \* per address, the sum of the counts returned since the last reset
  pl_calls,          \* number of read_new_entries, parse_lines and reset calls so far
  ids,               \* IDS: demo_mode, enable_http, running, scan_count
  http_detector,     \* HTTPDetector: attack_tracker, detected_attacks
  cyc_last,          \* the scan cycle run last
  cyc_prev,          \* the scan cycle run before it
  proc,              \* the process running main(), step by step
  structure,         \* a CustomLinkedList, CustomHashTable or CustomQueue on its own
  py_hash,           \* hash() of this process, per key
  st_last,           \* the call made last on it, or on an HTTPDetector on its own
  st_hist,           \* what the calls so far put in and did not take out
  st_calls           \* number of such calls made so far

blocker_vars == <<blocked_ips_list, blocked_ips_file, iptables, db_threats,
                  db_blocked_ips, last, prev, fw_last, ncalls>>

detector_vars == <<detector, det_last, det_calls>>

classifier_vars == <<cls_last, http_cls_last>>

log_vars == <<clock, log_entries, file_ino, file_start>>

parser_vars == <<parser, rd_last, rd_prev, seen, rd_calls, host, pl_last,
                 deltas, pl_calls>>

ids_vars == <<ids, http_detector, cyc_last, cyc_prev, proc>>

structure_vars == <<structure, py_hash, st_last, st_hist, st_calls>>

vars == <<blocked_ips_list, blocked_ips_file, iptables, db_threats,
          db_blocked_ips, last, prev, fw_last, ncalls, detector, det_last,
          det_calls, cls_last, http_cls_last, clock, log_entries, file_ino,
          file_start, parser, rd_last, rd_prev, seen, rd_calls, host,
          pl_last, deltas, pl_calls, ids,
          http_detector, cyc_last, cyc_prev, proc,
          structure, py_hash, st_last, st_hist, st_calls>>

NoCall == [op |-> "none"]

Now == BState(blocked_ips_list, blocked_ips_file, iptables)

DbNow == DState(db_threats, db_blocked_ips)

\* fw_last after the invocations fw; a flush removes the rules of every
\* address.
RECURSIVE FwLastAfter(_, _)
FwLastAfter(h, fw) ==
  IF fw = <<>> THEN h
  ELSE LET c == Head(fw)
           h1 == IF ~c.ok THEN h
                 ELSE IF c.cmd = "F" THEN [a \in DOMAIN h |-> "F"]
                 ELSE [h EXCEPT ![c.ip] = c.cmd]
       IN FwLastAfter(h1, Tail(fw))

\* What is kept of the call before the last one.
Brief(c) ==
  IF c.op = "none" THEN c
  ELSE [op |-> c.op, ip |-> c.ip, ret |-> c.ret, fw |-> c.fw]

\* A call took effect with result x (an IResult).  The record of the call
\* keeps the operation, its argument, the state it found (b0, d0, h0), the
\* value returned, the message printed, the iptables invocations made, the
\* database methods called and the events logged.
Took(op, ip, x) ==
  /\ ncalls < MaxCalls
  /\ blocked_ips_list' = x.r.b.list
  /\ blocked_ips_file' = x.r.b.file
  /\ iptables' = x.r.b.ipt
  /\ db_threats' = x.d.threats
  /\ db_blocked_ips' = x.d.blocked_ips
  /\ last' = [op |-> op, ip |-> ip, b0 |-> Now, d0 |-> DbNow, h0 |-> fw_last,
              ret |-> x.r.ret, msg |-> x.r.msg, fw |-> x.r.fw, db |-> x.db,
              log |-> x.log]
  /\ prev' = Brief(last)
  /\ fw_last' = FwLastAfter(fw_last, x.r.fw)
  /\ ncalls' = ncalls + 1
  /\ UNCHANGED <<detector_vars, classifier_vars, log_vars, parser_vars,
                 ids_vars, structure_vars>>

\* A call on the Blocker alone: the database and the activity log are not
\* touched.
OnBlocker(r) == IResult(r, DbNow, <<>>, <<>>)

\* The state after Blocker() on a fresh data directory and Database(), the
\* chain holding no rule for the addresses addrs.
InitBlockerOn(addrs) ==
  /\ blocked_ips_list = <<>>
  /\ blocked_ips_file = <<StartedHeader>>
  /\ iptables = [a \in addrs |-> 0]
  /\ db_threats = <<>>
  /\ db_blocked_ips = {}
  /\ last = NoCall
  /\ prev = NoCall
  /\ fw_last = [a \in addrs |-> "none"]
  /\ ncalls = 0

InitBlocker == InitBlockerOn(Addrs)

\* The state after Detector(threshold).
InitDetector(threshold) ==
  /\ detector = Det(threshold, <<>>, <<>>)
  /\ det_last = NoCall
  /\ det_calls = 0

\* No classifier has been called on its own.
InitClassifiers ==
  /\ cls_last = NoCall
  /\ http_cls_last = NoCall

\* The structure s, new, in a process whose hash() is one of hashes.
InitStructure(s, hashes) ==
  /\ structure = s
  /\ py_hash \in hashes
  /\ st_last = NoCall
  /\ st_hist = <<>>
  /\ st_calls = 0

\* No structure is used on its own.
NoStructure == [size |-> 0]
InitStructures == InitStructure(NoStructure, {<<>>})

\* A line of the log: its place in what sshd wrote, the time it was
\* written, and its text.
Entry(id, ts, text) == [id |-> id, ts |-> ts, text |-> text]

\* The texts sshd writes here: a failed password for a known user from one
\* address, one for an unknown user from another, and a successful login.
LineTexts ==
  {<<Phrase("Failed password for", IP1)>>,
   <<Phrase("Failed password for invalid user", IP2)>>,
   <<Phrase("Accepted password for", IP1)>>}

\* The time the parser is built at, the last tick of a second, and a line
\* written longer before it than the lookback reaches.
StartClock == LookbackTicks + 2 * TicksPerSecond - 1
OldEntry == Entry(1, 0, <<Phrase("Failed password for", IP1)>>)

\* The state after LogParser() on the host h: the source is the one
\* _detect_logging_system chose, nothing has been read or counted.
InitLogParserOn(h, entries) ==
  /\ clock = StartClock
  /\ log_entries = entries
  /\ file_ino = 1
  /\ file_start = 0
  /\ host = h
  /\ parser = Parser(_detect_logging_system(h), NoTimestamp, <<>>)
  /\ rd_last = NoCall
  /\ rd_prev = NoCall
  /\ seen = {}
  /\ rd_calls = 0
  /\ pl_last = NoCall
  /\ deltas = [a \in CycleAddrs |-> 0]
  /\ pl_calls = 0

\* The state after LogParser() on a host where the probe gave the source
\* use_journalctl.
InitLogParser(use_journalctl, entries) ==
  InitLogParserOn(CHOOSE h \in Hosts :
                    _detect_logging_system(h) = use_journalctl, entries)

\* No process is followed step by step.
NoProcess == [mode |-> "none", tasks |-> <<>>, exit_code |-> NoExit]

\* The IDS object as IDS.__init__ lays it out and start() sets it running,
\* its parser a LogParser built with the defaults and its HTTP detector
\* new.  No cycle has run.
InitIDS(demo_mode, enable_http) ==
  /\ ids = [demo_mode |-> demo_mode, enable_http |-> enable_http,
            running |-> TRUE, scan_count |-> 0, raised |-> None]
  /\ http_detector = HDet(<<>>, <<>>)
  /\ cyc_last = NoCall
  /\ cyc_prev = NoCall
  /\ proc = NoProcess

\* The orchestrator builds its Detector with threshold 5.
Init ==
  /\ InitBlocker
  /\ InitDetector(DefaultThreshold)
  /\ InitClassifiers
  /\ InitStructures
  /\ InitLogParser(TRUE, <<>>)
  /\ InitIDS(TRUE, TRUE)

\* A Detector built with any of the thresholds.
InitAnyThreshold ==
  /\ InitBlocker
  /\ \E threshold \in Thresholds : InitDetector(threshold)
  /\ InitClassifiers
  /\ InitStructures
  /\ InitLogParser(TRUE, <<>>)
  /\ InitIDS(TRUE, TRUE)

\* An IDS of any mode, with or without the HTTP scan, on a host of either
\* kind, the log empty.
InitScan ==
  /\ InitBlockerOn(CycleAddrs)
  /\ InitDetector(DefaultThreshold)
  /\ InitClassifiers
  /\ InitStructures
  /\ \E use_journalctl \in BOOLEAN : InitLogParser(use_journalctl, <<>>)
  /\ \E demo_mode, enable_http \in BOOLEAN : InitIDS(demo_mode, enable_http)

\* A line written just before the parser is built.
RecentEntry ==
  Entry(2, StartClock, <<Phrase("Failed password for invalid user", IP2)>>)

\* main() in any of its modes, at the point where IDS() has returned the
\* object (running is False until start() is called), on a host of either
\* kind with an empty log.
InitMain ==
  /\ InitBlockerOn(CycleAddrs)
  /\ InitDetector(DefaultThreshold)
  /\ InitClassifiers
  /\ InitStructures
  /\ \E use_journalctl \in BOOLEAN : InitLogParser(use_journalctl, <<>>)
  /\ http_detector = HDet(<<>>, <<>>)
  /\ cyc_last = NoCall
  /\ cyc_prev = NoCall
  /\ \E mode \in Modes :
       /\ ids = [demo_mode |-> demo_mode_of(mode),
                 enable_http |-> enable_http_of(mode),
                 running |-> FALSE, scan_count |-> 0, raised |-> None]
       /\ proc = Process(mode, World(Now, DbNow, detector, http_detector,
                                     parser))

\* The values IDS is built with.
PositiveArgs == {1, 5, 10}

\* main() in any of its modes before IDS() is called, on any host, IDS
\* being given any positive threshold and interval.  The components hold
\* what their constructors would lay out; proc.built tells whether they
\* have been built.
InitBoot ==
  /\ InitBlockerOn(CycleAddrs)
  /\ InitDetector(DefaultThreshold)
  /\ InitClassifiers
  /\ InitStructures
  /\ \E h \in Hosts : InitLogParserOn(h, <<>>)
  /\ http_detector = HDet(<<>>, <<>>)
  /\ cyc_last = NoCall
  /\ cyc_prev = NoCall
  /\ \E mode \in Modes, threshold \in PositiveArgs, interval \in PositiveArgs :
       /\ ids = [demo_mode |-> demo_mode_of(mode),
                 enable_http |-> enable_http_of(mode),
                 running |-> FALSE, scan_count |-> 0, raised |-> None]
       /\ proc = Boot(mode, World(Now, DbNow, detector, http_detector,
                                  parser), threshold, interval, host)

\* A LogParser built on any host, the log holding an old line and a recent
\* one.
InitAnyHost ==
  /\ InitBlocker
  /\ InitDetector(DefaultThreshold)
  /\ InitClassifiers
  /\ InitStructures
  /\ \E h \in Hosts : InitLogParserOn(h, <<OldEntry, RecentEntry>>)
  /\ InitIDS(TRUE, TRUE)

\* A LogParser built on a host of either kind, the log holding an old
\* line.
InitAnySource ==
  /\ InitBlocker
  /\ InitDetector(DefaultThreshold)
  /\ InitClassifiers
  /\ InitStructures
  /\ \E use_journalctl \in BOOLEAN : InitLogParser(use_journalctl, <<OldEntry>>)
  /\ InitIDS(TRUE, TRUE)

\* ------------------------------------------------------------------ actions

\* blocker.block_ip(ip), called directly
BlockIp ==
  \E ip \in Addrs, ok \in BOOLEAN :
    Took("block_ip", ip, OnBlocker(block_ip(Now, ip, ok)))

\* blocker.unblock_ip(ip): the unblock command, the GUI's unblock button
UnblockIp ==
  \E ip \in Addrs, ok \in BOOLEAN :
    /\ ok => CanSucceed("D", iptables, ip)
    /\ Took("unblock_ip", ip, OnBlocker(unblock_ip(Now, ip, ok)))

\* blocker.unblock_all()
UnblockAll ==
  \E oks \in [1..Len(blocked_ips_list) -> BOOLEAN] :
    Took("unblock_all", <<>>, OnBlocker(unblock_all(Now, oks)))

\* blocker.flush_iptables()
FlushIptables ==
  \E ok \in BOOLEAN :
    Took("flush_iptables", <<>>, OnBlocker(flush_iptables(Now, ok)))

\* The process ends and a new one builds its Blocker from the file.
Restart ==
  Took("restart", <<>>, OnBlocker(BResult(Blocker_init(Now), TRUE, "", <<>>)))

\* sys.argv[1], if there is one.
Command(argv) == IF Len(argv) > 0 THEN argv[1] ELSE ""

\* python3 blocker.py argv, run by the operator; the prompt comes up for
\* the flush command alone, and iptables is invoked by the flush, unblock
\* and unblock-all commands alone.
BlockerMain ==
  \E argv \in Argvs :
    \E answer \in IF Command(argv) = "flush" THEN Answers ELSE {<<>>},
       ok \in IF Command(argv) \in {"flush", "unblock"} THEN BOOLEAN
              ELSE {TRUE},
       oks \in IF Command(argv) = "unblock-all"
                THEN [1..Len(_load_blocked_ips(blocked_ips_file)) -> BOOLEAN]
              ELSE {<<>>} :
      LET x == OnBlocker(blocker_main(Now, argv, answer, ok, oks)) IN
        /\ ncalls < MaxCalls
        /\ blocked_ips_list' = blocked_ips_list
        /\ blocked_ips_file' = x.r.b.file
        /\ iptables' = x.r.b.ipt
        /\ last' = [op |-> "blocker.py", ip |-> <<>>, argv |-> argv,
                    answer |-> answer, b0 |-> Now, d0 |-> DbNow,
                    h0 |-> fw_last, ret |-> x.r.ret, msg |-> x.r.msg,
                    fw |-> x.r.fw, db |-> <<>>, log |-> <<>>,
                    b |-> x.r.b]
        /\ prev' = Brief(last)
        /\ fw_last' = FwLastAfter(fw_last, x.r.fw)
        /\ ncalls' = ncalls + 1
        /\ UNCHANGED <<db_threats, db_blocked_ips>>
        /\ UNCHANGED <<detector_vars, classifier_vars, log_vars, parser_vars,
                       ids_vars, structure_vars>>

\* The operator unblocks the address selected in the GUI's threat table:
\* unblock_selected builds a Blocker of its own, as a run of blocker.py
\* does.  The orchestrator's Blocker keeps its list.
GuiUnblockSelected ==
  \E ip \in Addrs, confirmed \in BOOLEAN, ok \in BOOLEAN :
    \E x \in {OnBlocker(unblock_selected(Now, ip, confirmed, ok))} :
      /\ ncalls < MaxCalls
      /\ confirmed \/ ok
      /\ blocked_ips_list' = blocked_ips_list
      /\ blocked_ips_file' = x.r.b.file
      /\ iptables' = x.r.b.ipt
      /\ last' = [op |-> "unblock_selected", ip |-> ip, argv |-> <<>>,
                  answer |-> <<>>, b0 |-> Now, d0 |-> DbNow,
                  h0 |-> fw_last, ret |-> x.r.ret, msg |-> x.r.msg,
                  fw |-> x.r.fw, db |-> <<>>, log |-> <<>>, b |-> x.r.b]
      /\ prev' = Brief(last)
      /\ fw_last' = FwLastAfter(fw_last, x.r.fw)
      /\ ncalls' = ncalls + 1
      /\ UNCHANGED <<db_threats, db_blocked_ips>>
      /\ UNCHANGED <<detector_vars, classifier_vars, log_vars, parser_vars,
                     ids_vars, structure_vars>>

\* self._block_ip(ip, reason) of the orchestrator
IDSBlockIp ==
  \E ip \in Addrs, ok \in BOOLEAN :
    Took("IDS._block_ip", ip, IDS_block_ip(Now, DbNow, ip, ok))

\* detector.detect_threats(failed_attempts)
DetectThreats ==
  \E failed_attempts \in FailedAttempts :
    LET x == detect_threats(detector, failed_attempts) IN
      /\ det_calls < MaxDetCalls
      /\ detector' = x.det
      /\ det_last' = [op |-> "detect_threats",
                      failed_attempts |-> failed_attempts,
                      threshold |-> detector.threshold,
                      threats |-> x.threats,
                      returned |-> (IF det_last.op = "none" THEN <<>>
                                    ELSE det_last.returned) \o x.threats]
      /\ det_calls' = det_calls + 1
      /\ UNCHANGED <<blocker_vars, classifier_vars, log_vars, parser_vars,
                     ids_vars, structure_vars>>

\* detector._calculate_threat_level(attempts): the method takes the count
\* and touches no attribute of the detector.
CalculateThreatLevel ==
  \E attempts \in AttemptCounts :
    /\ cls_last' = [op |-> "_calculate_threat_level", attempts |-> attempts,
                    det0 |-> detector,
                    level |-> _calculate_threat_level(attempts)]
    /\ UNCHANGED <<blocker_vars, detector_vars, http_cls_last, log_vars,
                   parser_vars, ids_vars, structure_vars>>

\* http_detector._calculate_threat_level(attack_types)
HTTPCalculateThreatLevel ==
  \E attack_types \in AttackTypeLists :
    /\ http_cls_last' = [op |-> "_calculate_threat_level",
                         attack_types |-> attack_types,
                         level |-> HTTP_calculate_threat_level(attack_types)]
    /\ UNCHANGED <<blocker_vars, detector_vars, cls_last, log_vars,
                   parser_vars, ids_vars, structure_vars>>

\* The file now at the log path: its identity, its lines, and the lines of
\* the files rotated away.
AuthLog ==
  [ino |-> file_ino,
   lines |-> SubSeq(log_entries, file_start + 1, Len(log_entries)),
   rotated |-> SubSeq(log_entries, 1, file_start)]

\* The places of the lines of a list.
Ids(lines) == [i \in 1..Len(lines) |-> lines[i].id]

\* Time passes.
Tick ==
  /\ clock < StartClock + MaxTicks
  /\ clock' = clock + 1
  /\ UNCHANGED <<log_entries, file_ino, file_start>>
  /\ UNCHANGED <<blocker_vars, detector_vars, classifier_vars, parser_vars,
                 ids_vars, structure_vars>>

\* sshd writes a line; it reaches the journal and the log file.
SshdLogs ==
  \E text \in LineTexts :
    /\ Len(log_entries) < Len(<<OldEntry>>) + MaxEntries
    /\ log_entries' = Append(log_entries,
                             Entry(Len(log_entries) + 1, clock, text))
    /\ UNCHANGED <<clock, file_ino, file_start>>
    /\ UNCHANGED <<blocker_vars, detector_vars, classifier_vars, parser_vars,
                   ids_vars, structure_vars>>

\* The log file is rotated: the file at the path is a new, empty one.
Rotate ==
  /\ ~parser.use_journalctl
  /\ file_ino <= MaxRotations
  /\ file_ino' = file_ino + 1
  /\ file_start' = Len(log_entries)
  /\ UNCHANGED <<clock, log_entries>>
  /\ UNCHANGED <<blocker_vars, detector_vars, classifier_vars, parser_vars,
                 ids_vars, structure_vars>>

\* What is kept of the read before the last one.
BriefRead(c) ==
  IF c.op = "none" THEN c
  ELSE [op |-> c.op, outcome |-> c.outcome, now |-> c.now, since |-> c.since,
        ino |-> c.ino, loglen |-> c.loglen, lines |-> c.lines,
        raised |-> c.raised]

\* The record of a scan_once call with result x: the source and what
\* reading it came to, the time, the --since argument, last_timestamp before
\* and after, the file at the path and its lines, the number of lines sshd
\* had written, the lines returned, the exception raised, the lines the
\* earlier reads returned, and the dict returned.
ReadRecord(outcome, x) ==
  [op |-> "scan_once", journal |-> parser.use_journalctl,
   outcome |-> outcome, now |-> clock,
   since |-> IF parser.use_journalctl THEN since_str(parser, clock)
             ELSE NoTimestamp,
   ts0 |-> parser.last_timestamp, ts1 |-> x.parser.last_timestamp,
   ino |-> file_ino, content |-> Ids(AuthLog.lines),
   loglen |-> Len(log_entries), lines |-> Ids(x.lines), raised |-> x.raised,
   seen0 |-> seen, new_attempts |-> x.new_attempts]

\* The record of a call of a LogParser method: the source and the ledger it
\* found, the method called before it, the texts of the lines it read or was given, and the dict it
\* returned.
MethodRecord(op, lines, ret) ==
  [op |-> op, use_journalctl0 |-> parser.use_journalctl,
   fa0 |-> parser.failed_attempts, op0 |-> pl_last.op,
   lines |-> [i \in 1..Len(lines) |-> lines[i].text], ret |-> ret]

\* deltas after a call that returned the counts new_attempts.
DeltasPlus(new_attempts) ==
  [a \in CycleAddrs |-> deltas[a] + dict_get(new_attempts, a)]

\* parser.scan_once(), called on the parser directly
ScanOnce ==
  \E outcome \in IF parser.use_journalctl THEN JournalOutcomes
                  ELSE FileOutcomes :
    LET x == scan_once(parser, AuthLog, log_entries, clock, outcome) IN
      /\ rd_calls < MaxReads
      /\ parser' = x.parser
      /\ rd_last' = ReadRecord(outcome, x)
      /\ rd_prev' = BriefRead(rd_last)
      /\ seen' = seen \cup {x.lines[i].id : i \in 1..Len(x.lines)}
      /\ rd_calls' = rd_calls + 1
      /\ pl_last' = MethodRecord("scan_once", x.lines, x.new_attempts)
      /\ deltas' = DeltasPlus(x.new_attempts)
      /\ UNCHANGED <<host, pl_calls>>
      /\ UNCHANGED <<blocker_vars, detector_vars, classifier_vars, log_vars,
                     ids_vars, structure_vars>>

\* The texts of the lines handed to parse_lines: one for each pattern, one
\* no pattern matches, and two that hold the phrases of two patterns with
\* different addresses, the phrase of the earlier pattern standing later in
\* the line.
ParseTexts ==
  {<<Phrase("Failed password for", IP1)>>,
   <<Phrase("Failed password for invalid user", IP2)>>,
   <<Phrase("Invalid user", IP2)>>,
   <<Phrase("authentication failure; rhost=", IP1)>>,
   <<Phrase("Connection closed by authenticating user [preauth]", IP2)>>,
   <<Phrase("Accepted password for", IP1)>>,
   <<Phrase("Invalid user", IP1), Phrase("Failed password for", IP2)>>,
   <<Phrase("Connection closed by [preauth]", IP1),
     Phrase("authentication failure; rhost=", IP2)>>}

\* The lists of lines handed to parse_lines: no line, one line, a line
\* twice, and a line followed by one that no pattern matches.
ParseLineLists ==
  {<<>>} \cup {<<Entry(0, 0, t)>> : t \in ParseTexts}
         \cup {<<Entry(0, 0, t), Entry(0, 0, t)>> :
                  t \in {<<Phrase("Failed password for", IP1)>>}}
         \cup {<<Entry(0, 0, t),
                  Entry(0, 0, <<Phrase("Accepted password for", IP1)>>)>> :
                  t \in ParseTexts}

\* parser.read_new_entries(), called on the parser directly
ReadNewEntries ==
  \E outcome \in IF parser.use_journalctl THEN JournalOutcomes
                  ELSE FileOutcomes :
    LET x == read_new_entries(parser, AuthLog, log_entries, clock, outcome) IN
      /\ pl_calls < MaxParserCalls
      /\ parser' = x.parser
      /\ pl_last' = MethodRecord("read_new_entries", x.lines, <<>>)
      /\ seen' = seen \cup {x.lines[i].id : i \in 1..Len(x.lines)}
      /\ pl_calls' = pl_calls + 1
      /\ UNCHANGED <<rd_last, rd_prev, rd_calls, host, deltas>>
      /\ UNCHANGED <<blocker_vars, detector_vars, classifier_vars, log_vars,
                     ids_vars, structure_vars>>

\* parser.parse_lines(lines)
ParseLines ==
  \E lines \in ParseLineLists :
    LET x == parse_lines(parser, lines) IN
      /\ pl_calls < MaxParserCalls
      /\ parser' = x.parser
      /\ pl_last' = MethodRecord("parse_lines", lines, x.new_attempts)
      /\ deltas' = DeltasPlus(x.new_attempts)
      /\ pl_calls' = pl_calls + 1
      /\ UNCHANGED <<rd_last, rd_prev, rd_calls, seen, host>>
      /\ UNCHANGED <<blocker_vars, detector_vars, classifier_vars, log_vars,
                     ids_vars, structure_vars>>

\* parser.reset()
Reset ==
  /\ pl_calls < MaxParserCalls
  /\ parser' = reset(parser)
  /\ pl_last' = MethodRecord("reset", <<>>, <<>>)
  /\ deltas' = [a \in CycleAddrs |-> 0]
  /\ pl_calls' = pl_calls + 1
  /\ UNCHANGED <<rd_last, rd_prev, rd_calls, seen, host>>
  /\ UNCHANGED <<blocker_vars, detector_vars, classifier_vars, log_vars,
                 ids_vars, structure_vars>>

\* The sizes of the bursts of failed logins, and the addresses they come
\* from.
BurstSizes == {7, 12}
BurstAddrs == {IP1, IP2}

\* sshd writes a burst of failed-password lines for one address.
SshdLogsMany ==
  \E n \in BurstSizes, ip \in BurstAddrs :
    /\ Len(log_entries) + n <= MaxBurstLines
    /\ log_entries' =
         log_entries \o [i \in 1..n |->
                           Entry(Len(log_entries) + i, clock,
                                 <<Phrase("Failed password for", ip)>>)]
    /\ UNCHANGED <<clock, file_ino, file_start>>
    /\ UNCHANGED <<blocker_vars, detector_vars, classifier_vars, parser_vars,
                   ids_vars, structure_vars>>

\* What is kept of the cycle before the last one.
BriefCycle(c) ==
  IF c.op = "none" THEN c
  ELSE [op |-> c.op, scan_count |-> c.scan_count, raised |-> c.raised,
        threats |-> c.threats, blocks |-> c.blocks]

\* The record of a cycle that left the world w: the mode and the cycle's
\* number, the ledger and the list of blocked addresses it found, and what
\* it did (see World).
CycleRecord(w) ==
  [op |-> "scan_and_respond", demo_mode |-> ids.demo_mode,
   scan_count |-> ids.scan_count, fa0 |-> parser.failed_attempts,
   list0 |-> blocked_ips_list, raised |-> w.raised,
   new_attempts |-> w.new_attempts, failed_attempts |-> w.failed_attempts,
   threats |-> w.threats, blocks |-> w.blocks, log |-> w.log]

\* One turn of the loop of IDS.start(): scan_and_respond() and, when it
\* returns, scan_count += 1.  The loop catches KeyboardInterrupt alone, so
\* any other exception of the cycle ends it.
ScanCycle ==
  \E demo_attempts \in IF ids.demo_mode /\ ids.scan_count % 3 = 0
                           THEN DemoAttempts ELSE {<<>>},
     outcome \in IF ids.demo_mode THEN {"ok"}
                 ELSE IF parser.use_journalctl THEN JournalOutcomes
                 ELSE FileOutcomes,
     oks \in [1..MaxBlocksPerCycle -> BOOLEAN] :
    \E w \in {scan_and_respond(
                 [World(Now, DbNow, detector, http_detector, parser)
                    EXCEPT !.oks = oks],
                 ids.demo_mode, ids.enable_http, ids.scan_count,
                 demo_attempts, AuthLog, log_entries, clock, outcome)} :
       /\ ids.running /\ ids.raised = None
       /\ ids.scan_count < MaxCycles
       /\ blocked_ips_list' = w.b.list
       /\ blocked_ips_file' = w.b.file
       /\ iptables' = w.b.ipt
       /\ db_threats' = w.d.threats
       /\ db_blocked_ips' = w.d.blocked_ips
       /\ fw_last' = FwLastAfter(fw_last, w.fw)
       /\ detector' = w.det
       /\ http_detector' = w.hd
       /\ parser' = w.p
       /\ ids' = IF w.raised # None THEN [ids EXCEPT !.raised = w.raised]
                 ELSE [ids EXCEPT !.scan_count = @ + 1]
       /\ cyc_last' = CycleRecord(w)
       /\ cyc_prev' = BriefCycle(cyc_last)
       /\ deltas' = DeltasPlus(w.new_attempts)
       /\ UNCHANGED <<last, prev, ncalls, det_last, det_calls, classifier_vars,
                      log_vars, rd_last, rd_prev, seen, rd_calls, host,
                      pl_last, pl_calls, proc, structure_vars>>

\* The counts random.randint makes up in the cycles followed step by step:
\* no address at level HIGH, one, and two.
MainDemoAttempts ==
  {<< <<Demo50, 6>>, <<Demo45, 8>>, <<Demo100, 3>> >>,
   << <<Demo50, 10>>, <<Demo45, 8>>, <<Demo100, 5>> >>,
   << <<Demo50, 12>>, <<Demo45, 15>>, <<Demo100, 7>> >>}

\* The step the process is at.
At(t) == proc.tasks # <<>> /\ Head(proc.tasks).t = t

\* The process takes its next step.  What the environment holds for a cycle
\* is chosen when the cycle begins, the outcome of an iptables invocation
\* when _block_ip is called.
MainStep ==
  \E demo_attempts \in IF At("scan_and_respond") /\ ids.demo_mode
                             /\ ids.scan_count % 3 = 0
                           THEN MainDemoAttempts ELSE {<<>>},
     outcome \in IF At("scan_and_respond") /\ ~ids.demo_mode
                   THEN IF parser.use_journalctl THEN JournalOutcomes
                        ELSE FileOutcomes
                 ELSE {"ok"},
     ok \in IF At("_block_ip") THEN BOOLEAN ELSE {TRUE} :
    LET w == World(Now, DbNow, detector, http_detector, parser)
        cyc == [demo_attempts |-> demo_attempts, outcome |-> outcome,
                oks |-> <<>>]
        x == step(proc, ids, w, cyc, ok, AuthLog, log_entries, clock)
        raised == x.proc.w.raised
    IN /\ proc.exit_code = NoExit /\ proc.tasks # <<>>
       /\ At("scan_and_respond") => ids.scan_count < MaxCycles
       /\ proc' = IF raised # None THEN exit_on_exception(x.proc) ELSE x.proc
       /\ ids' = IF raised # None THEN [x.ids EXCEPT !.raised = raised]
                 ELSE x.ids
       /\ blocked_ips_list' = x.proc.w.b.list
       /\ blocked_ips_file' = x.proc.w.b.file
       /\ iptables' = x.proc.w.b.ipt
       /\ db_threats' = x.proc.w.d.threats
       /\ db_blocked_ips' = x.proc.w.d.blocked_ips
       /\ fw_last' = IF At("subprocess.run")
                       THEN FwLastAfter(fw_last, x.proc.call_fw)
                     ELSE fw_last
       /\ detector' = x.proc.w.det
       /\ http_detector' = x.proc.w.hd
       /\ parser' = x.proc.w.p
       /\ deltas' = IF At("_scan_ssh_attacks")
                      THEN DeltasPlus(x.proc.w.new_attempts)
                    ELSE deltas
       /\ UNCHANGED <<last, prev, ncalls, det_last, det_calls, classifier_vars,
                      log_vars, rd_last, rd_prev, seen, rd_calls, host,
                      pl_last, pl_calls, cyc_last, cyc_prev, structure_vars>>

\* The operator presses Ctrl+C: SIGINT reaches the process between two of
\* its steps.
Sigint ==
  LET x == IF proc.handler THEN signal_handler(proc, ids)
           ELSE default_int_handler(proc, ids)
  IN /\ proc.exit_code = NoExit /\ proc.tasks # <<>>
     /\ proc' = x.proc
     /\ ids' = x.ids
     /\ UNCHANGED <<blocker_vars, detector_vars, classifier_vars, log_vars,
                    parser_vars, http_detector, cyc_last, cyc_prev,
                    structure_vars>>

Next == BlockIp \/ UnblockIp \/ UnblockAll \/ FlushIptables \/ Restart
          \/ IDSBlockIp

NextProcess == BlockIp \/ UnblockIp \/ UnblockAll \/ FlushIptables
                 \/ IDSBlockIp

\* One process: the Blocker built at its start serves every call.
SpecProcess == Init /\ [][NextProcess]_vars

\* detect_threats calls on one Detector.
SpecDetector == InitAnyThreshold /\ [][DetectThreats]_vars

\* The two severity classifiers, called on their own on a Detector built
\* with any of the thresholds.
SpecClassifiers ==
  InitAnyThreshold /\ [][CalculateThreatLevel \/ HTTPCalculateThreatLevel]_vars

\* The LogParser on its own: sshd writes, the file is rotated, the parser
\* scans.
SpecReader == InitAnySource /\ [][Tick \/ SshdLogs \/ Rotate \/ ScanOnce]_vars

\* The orchestrator blocks addresses; the operator runs blocker.py.
SpecCli == Init /\ [][IDSBlockIp \/ BlockerMain]_vars

\* The orchestrator blocks addresses; the operator runs blocker.py and
\* unblocks in the GUI.
SpecOperator ==
  Init /\ [][IDSBlockIp \/ BlockerMain \/ GuiUnblockSelected]_vars

\* main() from the point where the IDS is built, until the process exits.
NextMain == MainStep \/ Sigint

SpecMain == InitMain /\ [][NextMain]_vars

\* main() from its first statement.
SpecBoot == InitBoot /\ [][NextMain]_vars

\* The methods of a LogParser built on any host, called in any order.
NextParser ==
  \/ rd_calls + pl_calls < MaxParserCalls /\ ReadNewEntries
  \/ rd_calls + pl_calls < MaxParserCalls /\ ParseLines
  \/ rd_calls + pl_calls < MaxParserCalls /\ ScanOnce
  \/ rd_calls + pl_calls < MaxParserCalls /\ Reset

SpecParser == InitAnyHost /\ [][NextParser]_vars

\* The scan loop of the orchestrator: sshd writes bursts of failed logins,
\* time passes, the loop turns.
\* In demo mode the log is never read, and what happens to it is left out.
NextScan ==
  \/ ~ids.demo_mode /\ Tick
  \/ ~ids.demo_mode /\ SshdLogsMany
  \/ ScanCycle

SpecScan == InitScan /\ [][NextScan]_vars

\* Every operation of the Blocker, process restarts, and the orchestrator.
Spec == Init /\ [][Next]_vars

\* What is appended to, inserted in and enqueued in the structures.
Elems == {"x", "y"}
Keys == {"j", "k"}
Values == {None, "0", "v"}

\* The bucket count the table is built with, and what hash() can be in a
\* process: the two keys share a bucket or do not.
TableSize == 2
Hashes == [Keys -> 0..(TableSize - 1)]

RemoveFirst(s, x) ==
  IF \E i \in 1..Len(s) : s[i] = x
    THEN LET i == CHOOSE i \in 1..Len(s) :
                    s[i] = x /\ \A j \in 1..(i - 1) : s[j] # x
         IN SubSeq(s, 1, i - 1) \o SubSeq(s, i + 1, Len(s))
  ELSE s

\* A call on the structure: what it was given and returned, and the
\* structure and the history before it.
Called(op, arg, value, ret, after, hist) ==
  /\ structure' = after
  /\ st_last' = [op |-> op, arg |-> arg, value |-> value, ret |-> ret,
                 before |-> structure, hist0 |-> st_hist]
  /\ st_hist' = hist
  /\ st_calls' = st_calls + 1
  /\ UNCHANGED <<blocker_vars, detector_vars, classifier_vars, log_vars,
                 parser_vars, ids_vars, py_hash>>

InitLinkedList ==
  /\ InitBlocker
  /\ InitDetector(DefaultThreshold)
  /\ cls_last = NoCall /\ http_cls_last = NoCall
  /\ InitLogParser(TRUE, <<>>)
  /\ InitIDS(TRUE, TRUE)
  /\ InitStructure(CustomLinkedList_init, {<<>>})

InitHashTable ==
  /\ InitBlocker
  /\ InitDetector(DefaultThreshold)
  /\ cls_last = NoCall /\ http_cls_last = NoCall
  /\ InitLogParser(TRUE, <<>>)
  /\ InitIDS(TRUE, TRUE)
  /\ InitStructure(CustomHashTable_init(TableSize), Hashes)

InitQueue ==
  /\ InitBlocker
  /\ InitDetector(DefaultThreshold)
  /\ cls_last = NoCall /\ http_cls_last = NoCall
  /\ InitLogParser(TRUE, <<>>)
  /\ InitIDS(TRUE, TRUE)
  /\ InitStructure(CustomQueue_init, {<<>>})

\* list.append(data)
LLAppend ==
  \E data \in Elems :
    /\ st_calls < MaxStructCalls
    /\ Called("append", data, None, None,
              CustomLinkedList_append(structure, data),
              Append(st_hist, data))

\* list.remove(data)
LLRemove ==
  \E data \in Elems :
    \E x \in {CustomLinkedList_remove(structure, data)} :
      /\ st_calls < MaxStructCalls
      /\ Called("remove", data, None, x.ret, x.l, RemoveFirst(st_hist, data))

\* table.insert(key, value)
HTInsert ==
  \E key \in Keys, value \in Values :
    /\ st_calls < MaxTableCalls
    /\ Called("insert", key, value, None,
              CustomHashTable_insert(structure, py_hash, key, value),
              [k \in DOMAIN st_hist \cup {key} |->
                 IF k = key THEN value ELSE st_hist[k]])

\* table.delete(key)
HTDelete ==
  \E key \in Keys :
    \E x \in {CustomHashTable_delete(structure, py_hash, key)} :
      /\ st_calls < MaxTableCalls
      /\ Called("delete", key, None, x.ret, x.t,
                [k \in DOMAIN st_hist \ {key} |-> st_hist[k]])

\* queue.enqueue(data)
QEnqueue ==
  \E data \in Elems :
    /\ st_calls < MaxStructCalls
    /\ Called("enqueue", data, None, None,
              CustomQueue_enqueue(structure, data), Append(st_hist, data))

\* queue.dequeue()
QDequeue ==
  \E x \in {CustomQueue_dequeue(structure)} :
    /\ st_calls < MaxStructCalls
    /\ Called("dequeue", None, None, x.ret, x.q,
              IF st_hist = <<>> THEN <<>> ELSE Tail(st_hist))

\* The requests handed to the HTTPDetector, each as the categories whose
\* patterns it matches: none, one, two.
RequestMatches == {<<>>, <<"XSS">>, <<"SQL_INJECTION", "XSS">>}

\* http_detector.analyze_request(ip_address, request_string), called
\* directly.
AnalyzeRequest ==
  \E ip_address \in {Http200, Http201}, attack_types \in RequestMatches :
    \E x \in {analyze_request(http_detector, ip_address, attack_types)} :
      /\ st_calls < MaxRequests
      /\ http_detector' = x.hd
      /\ st_last' = [op |-> "analyze_request", ip |-> ip_address,
                     attack_types |-> attack_types, ret |-> x.attack,
                     before |-> http_detector]
      /\ st_hist' = Append(st_hist, [ip |-> ip_address,
                                     attack_types |-> attack_types])
      /\ st_calls' = st_calls + 1
      /\ UNCHANGED <<blocker_vars, detector_vars, classifier_vars, log_vars,
                     parser_vars, ids, cyc_last, cyc_prev, proc, structure,
                     py_hash>>

\* A CustomLinkedList, a CustomHashTable and a CustomQueue, each used on
\* its own.
SpecLinkedList == InitLinkedList /\ [][LLAppend \/ LLRemove]_vars
SpecHashTable == InitHashTable /\ [][HTInsert \/ HTDelete]_vars
SpecQueue == InitQueue /\ [][QEnqueue \/ QDequeue]_vars

\* An HTTPDetector used on its own.
SpecHTTPDetector == Init /\ [][AnalyzeRequest]_vars

\* ------------------------------------------------------------------ helpers of the properties

Range(s) == {s[i] : i \in 1..Len(s)}

\* The addresses tracked as blocked in memory / recorded in the file.
Tracked == Range(LL_to_list(blocked_ips_list))

Recorded == Range(_load_blocked_ips(blocked_ips_file))

\* The iptables invocations of the last call with command cmd on address a.
FwCalls(c, cmd, a) == {i \in 1..Len(c.fw) : c.fw[i].cmd = cmd /\ c.fw[i].ip = a}

BlockOps == {"block_ip", "IDS._block_ip"}

\* ------------------------------------------------------------------ C1

\* The last two calls were block_ip on the same address, and the first of
\* them added the rule.
TwoBlocksInSuccession ==
  /\ prev.op = "block_ip" /\ last.op = "block_ip" /\ prev.ip = last.ip
  /\ prev.ret = TRUE /\ prev.fw = <<FwCall("A", prev.ip, TRUE)>>

\* C1: when block_ip(a) is called twice in succession and the first call
\* succeeds, iptables -A is invoked once in total (by the first call, none by
\* the second) and the value the second call returns differs from the value
\* of the fresh success.
C1_IdempotentBlock ==
  TwoBlocksInSuccession =>
    /\ Cardinality(FwCalls(prev, "A", last.ip)) = 1
    /\ last.fw = <<>>
    /\ last.ret # prev.ret

\* ------------------------------------------------------------------ C2

\* C2: the chain never holds two DROP rules for one address, and iptables -A
\* is invoked for an address only when the chain holds no rule for it.
C2_NoDuplicateRule ==
  /\ \A a \in Addrs : iptables[a] <= 1
  /\ last.op # "none" =>
       \A a \in Addrs : FwCalls(last, "A", a) # {} => last.b0.ipt[a] = 0

\* ------------------------------------------------------------------ C3

C4_UnblockUntracked ==
  (last.op = "unblock_ip" /\ ~LL_search(last.b0.list, last.ip)) =>
    /\ last.ret = FALSE /\ last.msg = "INFO"
    /\ last.fw = <<>>
    /\ blocked_ips_list = last.b0.list
    /\ blocked_ips_file = last.b0.file
    /\ iptables = last.b0.ipt

\* unblock_ip on an address that was blocked and unblocked before, while
\* another address is blocked.
C4_Witness ==
  /\ last.op = "unblock_ip" /\ ~LL_search(last.b0.list, last.ip)
  /\ last.h0[last.ip] = "D"
  /\ Tracked # {}

\* ------------------------------------------------------------------ C5

\* C5: unblock_ip(a) on a blocked address invokes iptables -D once; if that
\* succeeds a is no longer tracked nor recorded in the file, and if it fails
\* a is still tracked and still recorded in the file.
C5_UnblockBlocked ==
  (last.op = "unblock_ip" /\ LL_search(last.b0.list, last.ip)) =>
    /\ Len(last.fw) = 1 /\ last.fw[1].cmd = "D" /\ last.fw[1].ip = last.ip
    /\ last.fw[1].ok =>
         last.ret = TRUE /\ last.ip \notin Tracked /\ last.ip \notin Recorded
    /\ ~last.fw[1].ok =>
         last.ret = FALSE /\ last.ip \in Tracked /\ last.ip \in Recorded

\* ------------------------------------------------------------------ C6

\* The positions of the snapshot whose removal succeeded / failed.
Removed(c) == {i \in 1..Len(c.fw) : c.fw[i].ok}

\* C6: unblock_all invokes the removal once for every address blocked when
\* it is called, in the order of the list and whatever the earlier outcomes,
\* returns the number of removals that succeeded, and leaves tracked exactly
\* the addresses whose removal failed.
C6_UnblockAllSweep ==
  last.op = "unblock_all" =>
    /\ Len(last.fw) = Len(last.b0.list)
    /\ \A i \in 1..Len(last.fw) :
         last.fw[i].cmd = "D" /\ last.fw[i].ip = last.b0.list[i]
    /\ \A a \in Range(last.b0.list) : Cardinality(FwCalls(last, "D", a)) = 1
    /\ last.ret = Cardinality(Removed(last))
    /\ Tracked = {last.fw[i].ip : i \in (1..Len(last.fw)) \ Removed(last)}

\* Three blocked addresses, the removal of the second fails: 2 is returned
\* and the second stays blocked.
C6_Witness ==
  /\ last.op = "unblock_all" /\ Len(last.b0.list) = 3
  /\ last.fw[1].ok /\ ~last.fw[2].ok /\ last.fw[3].ok
  /\ last.ret = 2
  /\ blocked_ips_list = <<last.b0.list[2]>>

\* ------------------------------------------------------------------ C7

C8_ReentrantAlternation ==
  last.op # "none" =>
    /\ (last.op = "block_ip" /\ last.h0[last.ip] = "D") =>
         /\ Len(last.fw) = 1 /\ last.fw[1].cmd = "A" /\ last.fw[1].ip = last.ip
         /\ last.fw[1].ok => last.ip \in Tracked /\ iptables[last.ip] = 1
    /\ \A i \in 1..Len(last.fw) :
         last.fw[i].ok =>
           /\ last.fw[i].cmd = "A" => last.h0[last.fw[i].ip] # "A"
           /\ last.fw[i].cmd = "D" => last.h0[last.fw[i].ip] = "A"
    /\ \A a \in Addrs : Cardinality(Removed(last) \cap
                           (FwCalls(last, "A", a) \cup FwCalls(last, "D", a))) <= 1

\* ------------------------------------------------------------------ C9

\* C9: loading the file into a new Blocker yields the addresses the running
\* Blocker tracks.
C9_FileMatchesList == Recorded = Tracked

\* ------------------------------------------------------------------ C10

\* The count failed_attempts gives for ip.
CountOf(fa, ip) == fa[CHOOSE i \in 1..Len(fa) : fa[i][1] = ip][2]

\* C10: detect_threats returns a threat for an address iff its count is at
\* least the threshold, one threat for each such address in the order of the
\* dict, carrying the address, the count given and the level of that count.
C10_ThreatIffAtThreshold ==
  det_last.op = "detect_threats" =>
    LET fa == det_last.failed_attempts
        threats == det_last.threats
    IN /\ \A i \in 1..Len(fa) :
            (\E j \in 1..Len(threats) : threats[j].ip = fa[i][1])
              <=> fa[i][2] >= det_last.threshold
       /\ \A j, k \in 1..Len(threats) :
            j # k => threats[j].ip # threats[k].ip
       /\ \A j \in 1..Len(threats) :
            /\ \E i \in 1..Len(fa) : fa[i][1] = threats[j].ip
            /\ threats[j].attempts = CountOf(fa, threats[j].ip)
            /\ threats[j].threat_level
                 = _calculate_threat_level(CountOf(fa, threats[j].ip))

\* One call given an address exactly at the threshold and another one below
\* it: the first is returned alone.
C10_Witness ==
  /\ det_last.op = "detect_threats"
  /\ Len(det_last.failed_attempts) = 2
  /\ det_last.failed_attempts[1][2] = det_last.threshold - 1
  /\ det_last.failed_attempts[2][2] = det_last.threshold
  /\ Len(det_last.threats) = 1
  /\ det_last.threats[1].ip = det_last.failed_attempts[2][1]
  /\ det_last.threats[1].attempts = det_last.threshold

\* ------------------------------------------------------------------ C11

\* C11: the count classifier returns CRITICAL for a count n >= 20, HIGH for
\* 10 <= n < 20, MEDIUM for 7 <= n < 10 and LOW for n < 7, for every
\* threshold of the detector, and leaves the detector as it was.
C11_LevelOfCount ==
  cls_last.op = "_calculate_threat_level" =>
    LET n == cls_last.attempts
        level == cls_last.level
    IN /\ n >= 20 => level = "CRITICAL"
       /\ (10 <= n /\ n < 20) => level = "HIGH"
       /\ (7 <= n /\ n < 10) => level = "MEDIUM"
       /\ n < 7 => level = "LOW"
       /\ detector = cls_last.det0

\* The classifier was given the breakpoint 10 on a detector whose threshold
\* is not the default one, and returned HIGH.
C11_Witness ==
  /\ cls_last.op = "_calculate_threat_level"
  /\ cls_last.attempts = 10 /\ cls_last.level = "HIGH"
  /\ detector.threshold # DefaultThreshold

\* ------------------------------------------------------------------ C12

\* The set of the categories in a list.
CategorySet(attack_types) == {attack_types[i] : i \in 1..Len(attack_types)}

\* C12: for the matched categories S, the multi-category classifier returns
\* CRITICAL when S has three or more members, otherwise HIGH when S holds
\* SQL_INJECTION or COMMAND_INJECTION, otherwise HIGH when S has two
\* members, otherwise MEDIUM; XSS alone and PATH_TRAVERSAL alone give
\* MEDIUM, SQL_INJECTION alone gives HIGH.
C12_LevelOfCategories ==
  http_cls_last.op = "_calculate_threat_level" =>
    LET S == CategorySet(http_cls_last.attack_types)
        level == http_cls_last.level
    IN /\ level = IF Cardinality(S) >= 3 THEN "CRITICAL"
                  ELSE IF "SQL_INJECTION" \in S \/ "COMMAND_INJECTION" \in S
                         THEN "HIGH"
                  ELSE IF Cardinality(S) = 2 THEN "HIGH"
                  ELSE "MEDIUM"
       /\ S = {"XSS"} => level = "MEDIUM"
       /\ S = {"PATH_TRAVERSAL"} => level = "MEDIUM"
       /\ S = {"SQL_INJECTION"} => level = "HIGH"
       /\ S = {"XSS", "PATH_TRAVERSAL"} => level = "HIGH"

\* The classifier was given SQL injection alone and returned HIGH.
C12_Witness ==
  /\ http_cls_last.op = "_calculate_threat_level"
  /\ http_cls_last.attack_types = <<"SQL_INJECTION">>
  /\ http_cls_last.level = "HIGH"

\* ------------------------------------------------------------------ helpers of the reader properties

\* The last call was scan_once on the log file / on the journal.
FileRead(c) == c.op = "scan_once" /\ ~c.journal
JournalRead(c) == c.op = "scan_once" /\ c.journal

\* The file was read, by open() or by sudo tail.
ReadTheFile(c) == c.outcome \in {"ok", "PermissionError, tail ok"}

\* The lines written so far in which a pattern finds the address ip.
FailedLoginLines(ip) ==
  {id \in 1..Len(log_entries) : first_match(PATTERNS, log_entries[id].text) = ip}

\* ------------------------------------------------------------------ C16

\* C16: reading the log file, never rotated, a read returns no line that an
\* earlier read returned, and the ledger counts for every address each
\* failed-login line read so far once.
C16_FileLineReadOnce ==
  (FileRead(rd_last) /\ rd_last.ino = 1) =>
    /\ Range(rd_last.lines) \cap rd_last.seen0 = {}
    /\ \A ip \in Addrs :
         dict_get(parser.failed_attempts, ip)
           = Cardinality(FailedLoginLines(ip) \cap seen)

\* ------------------------------------------------------------------ C17

\* C17: when the file at the path is not the file the read before found
\* there, a read of the file returns no line that was returned before, and
\* returns a line of the new file when the new file holds one.
C17_RotationNoReplayNoSkip ==
  (FileRead(rd_last) /\ rd_prev.op = "scan_once"
     /\ rd_prev.ino # rd_last.ino /\ ReadTheFile(rd_last)) =>
    /\ Range(rd_last.lines) \cap rd_last.seen0 = {}
    /\ rd_last.content # <<>> =>
         Range(rd_last.lines) \cap Range(rd_last.content) # {}

\* A line was read from the file, the file was rotated, sshd wrote a line
\* to the new file, and the next read returned that line alone.
C17_Witness ==
  /\ FileRead(rd_last) /\ rd_prev.op = "scan_once"
  /\ ReadTheFile(rd_prev) /\ rd_prev.lines # <<>>
  /\ rd_prev.ino # rd_last.ino
  /\ rd_last.outcome = "ok"
  /\ rd_last.content # <<>>
  /\ rd_last.lines = rd_last.content

\* ------------------------------------------------------------------ C18

\* C18: reading the journal, the first read returns every entry of the
\* lookback window, and of two successful reads in succession the second
\* returns no entry the first returned and returns every entry written
\* between them.
C18_JournalReadsContiguous ==
  /\ (JournalRead(rd_last) /\ rd_last.outcome = "ok"
        /\ rd_last.ts0 = NoTimestamp) =>
       \A id \in 1..rd_last.loglen :
         log_entries[id].ts >= rd_last.now - LookbackTicks
           => id \in Range(rd_last.lines)
  /\ (JournalRead(rd_last) /\ rd_prev.op = "scan_once"
        /\ rd_prev.outcome = "ok" /\ rd_last.outcome = "ok") =>
       /\ Range(rd_prev.lines) \cap Range(rd_last.lines) = {}
       /\ \A id \in (rd_prev.loglen + 1)..rd_last.loglen :
            id \in Range(rd_last.lines)

\* ------------------------------------------------------------------ C19

\* C19: reading the journal, a read whose query times out, fails or gives
\* no entry returns nothing and leaves last_timestamp as it was, and the
\* successful read after a failed one returns the entries the failed one
\* asked for.
C19_FailedReadKeepsResumePoint ==
  /\ (JournalRead(rd_last)
        /\ (rd_last.outcome # "ok" \/ rd_last.lines = <<>>)) =>
       /\ rd_last.lines = <<>>
       /\ rd_last.ts1 = rd_last.ts0
  /\ (JournalRead(rd_last) /\ rd_prev.op = "scan_once"
        /\ rd_prev.outcome # "ok" /\ rd_last.outcome = "ok") =>
       \A id \in 1..rd_prev.loglen :
         log_entries[id].ts >= rd_prev.since => id \in Range(rd_last.lines)

\* ------------------------------------------------------------------ C20

\* C20: no exception leaves a read, whatever reading the log comes to.
C20_ReadNeverRaises ==
  rd_last.op = "scan_once" => rd_last.raised = None

\* ------------------------------------------------------------------ helpers of the cycle properties

HighOrCritical == {"HIGH", "CRITICAL"}

\* The threats of a cycle for address a, and its _block_ip calls for a.
ThreatsFor(c, a) == {i \in 1..Len(c.threats) : c.threats[i].ip = a}
BlocksFor(c, a) == {i \in 1..Len(c.blocks) : c.blocks[i].ip = a}

\* A cycle in real mode that found the ledger empty and read n lines, all
\* of them failed passwords from address a.
ReadLinesOf(c, a, n) ==
  /\ c.op = "scan_and_respond" /\ ~c.demo_mode
  /\ c.fa0 = <<>>
  /\ c.new_attempts = << <<a, n>> >>

\* ------------------------------------------------------------------ C13

\* C13: in a cycle _block_ip is called for a threat iff its level is HIGH
\* or CRITICAL, and for nothing else; a cycle in real mode that reads seven
\* failed-password lines for one address, the threshold being 5, finds one
\* threat for it, with attempts 7 and level MEDIUM, and does not call
\* _block_ip for it.
C13_BlockIffHighOrCritical ==
  cyc_last.op = "scan_and_respond" =>
    /\ \A i \in 1..Len(cyc_last.threats) :
         BlocksFor(cyc_last, cyc_last.threats[i].ip) # {}
           <=> cyc_last.threats[i].threat_level \in HighOrCritical
    /\ \A j \in 1..Len(cyc_last.blocks) :
         ThreatsFor(cyc_last, cyc_last.blocks[j].ip) # {}
    /\ \A a \in BurstAddrs :
         (ReadLinesOf(cyc_last, a, 7) /\ detector.threshold = 5) =>
           /\ \E i \in 1..Len(cyc_last.threats) :
                /\ ThreatsFor(cyc_last, a) = {i}
                /\ cyc_last.threats[i].attempts = 7
                /\ cyc_last.threats[i].threat_level = "MEDIUM"
           /\ BlocksFor(cyc_last, a) = {}

\* ------------------------------------------------------------------ C14

\* C14: a cycle in real mode that reads twelve failed-password lines for
\* one address, the threshold being 5, finds a threat of level HIGH for it
\* and calls _block_ip for it once, which leaves one rule for it when
\* iptables -A succeeds; and whatever cycles follow, the chain never holds
\* two rules for an address.
C14_TwelveLinesOneAdd ==
  /\ \A a \in BurstAddrs :
       (ReadLinesOf(cyc_last, a, 12) /\ detector.threshold = 5) =>
         /\ \E i \in ThreatsFor(cyc_last, a) :
              /\ cyc_last.threats[i].attempts = 12
              /\ cyc_last.threats[i].threat_level = "HIGH"
         /\ Cardinality(BlocksFor(cyc_last, a)) = 1
         /\ \A j \in BlocksFor(cyc_last, a) :
              cyc_last.blocks[j].fw = <<FwCall("A", a, TRUE)>>
                => iptables[a] = 1 /\ a \in Tracked
  /\ \A a \in DOMAIN iptables : iptables[a] <= 1

\* ------------------------------------------------------------------ C15

\* The calls of a cycle for address a that failed.
FailedBlocksFor(c, a) == {j \in BlocksFor(c, a) : ~c.blocks[j].ret}

\* In real mode the ledger holds a count of level HIGH or CRITICAL for a.
LedgerHigh(a) ==
  /\ ~ids.demo_mode
  /\ dict_get(parser.failed_attempts, a) >= detector.threshold
  /\ _calculate_threat_level(dict_get(parser.failed_attempts, a))
       \in HighOrCritical

CountsOf(d) == [a \in CycleAddrs |-> dict_get(d, a)]

\* The rules in the order the claim gives them.
RuleOrder ==
  <<"failed_password", "invalid_user", "auth_failure", "connection_closed">>

\* The rules that match a line, by their place in RuleOrder.
RulesMatching(text) ==
  {k \in 1..Len(RuleOrder) : search(RuleOrder[k], text) # NoMatch}

\* The address the first matching rule gives for a line, NoMatch if no rule
\* matches.
FirstRuleAddress(text) ==
  IF RulesMatching(text) = {} THEN NoMatch
  ELSE search(RuleOrder[CHOOSE k \in RulesMatching(text) :
                          \A j \in RulesMatching(text) : k <= j], text)

\* The number of lines counted for the address a.
LinesCountedFor(lines, a) ==
  Cardinality({i \in 1..Len(lines) : FirstRuleAddress(lines[i]) = a})

\* ------------------------------------------------------------------ C21

\* C21: the source of the log (journal or file) is the one
\* _detect_logging_system chose when the parser was built; no call of
\* read_new_entries, parse_lines, scan_once or reset changes it.
C21_SourceFixedAtConstruction ==
  /\ parser.use_journalctl = _detect_logging_system(host)
  /\ pl_last.op # "none" => parser.use_journalctl = pl_last.use_journalctl0

\* A parser that fell back on the journal because no unit is active and
\* the log file does not exist has scanned, the query failing, and has been
\* reset.
C21_Witness ==
  /\ host = [systemctl |-> "none active", log_file_exists |-> FALSE]
  /\ rd_last.op = "scan_once" /\ rd_last.outcome = "Exception"
  /\ pl_last.op = "reset" /\ pl_last.op0 = "read_new_entries"

\* ------------------------------------------------------------------ C22

\* C22: parse_lines tries the rules in the order failed_password,
\* invalid_user, auth_failure, connection_closed and uses the first that
\* matches: every line adds one to the count of the address that rule gives
\* and to no other count, and a line no rule matches adds nothing, in the
\* dict returned as in the ledger.
C22_FirstMatchingRuleOnly ==
  pl_last.op = "parse_lines" =>
    /\ \A a \in CycleAddrs :
         /\ dict_get(pl_last.ret, a) = LinesCountedFor(pl_last.lines, a)
         /\ dict_get(parser.failed_attempts, a) =
              dict_get(pl_last.fa0, a) + LinesCountedFor(pl_last.lines, a)
    /\ \A i \in 1..Len(pl_last.ret) : pl_last.ret[i][1] \in CycleAddrs
    /\ \A i \in 1..Len(parser.failed_attempts) :
         parser.failed_attempts[i][1] \in CycleAddrs

\* parse_lines was given a line that two rules match with different
\* addresses, and a line no rule matches.
C22_Witness ==
  /\ pl_last.op = "parse_lines"
  /\ pl_last.lines = << <<Phrase("Invalid user", IP1),
                          Phrase("Failed password for", IP2)>>,
                        <<Phrase("Accepted password for", IP1)>> >>
  /\ pl_last.ret = << <<IP2, 1>> >>

\* ------------------------------------------------------------------ C23

\* C23: the count the ledger holds for an address never goes down except by
\* reset, which empties the ledger; parse_lines (also inside scan_once)
\* returns what the call added, and the count of every address is the sum
\* of the counts returned since the last reset.
C23_LedgerIsSumOfDeltas ==
  /\ CountsOf(parser.failed_attempts) = deltas
  /\ pl_last.op \in {"parse_lines", "scan_once"} =>
       \A a \in CycleAddrs :
         /\ dict_get(parser.failed_attempts, a) =
              dict_get(pl_last.fa0, a) + dict_get(pl_last.ret, a)
         /\ dict_get(pl_last.ret, a) = LinesCountedFor(pl_last.lines, a)
  /\ pl_last.op = "read_new_entries" =>
       parser.failed_attempts = pl_last.fa0
  /\ pl_last.op = "reset" => parser.failed_attempts = <<>>

\* A scan counted a line, the ledger was reset, and parse_lines counted
\* lines again.
C23_Witness ==
  /\ pl_last.op = "parse_lines" /\ pl_last.op0 = "reset"
  /\ pl_last.ret # <<>>
  /\ rd_last.op = "scan_once" /\ rd_last.new_attempts # <<>>
  /\ parser.failed_attempts = pl_last.ret

\* ------------------------------------------------------------------ C25

\* C25: a cycle in real mode whose read returned lines that were counted
\* goes through its steps in order: the lines are added to the ledger, a
\* copy of the ledger as it then is (the counts found plus the counts of
\* this cycle) is handed to the detector, every address of the copy at or
\* above the threshold becomes a threat with the count of the copy, and
\* _block_ip is called for the threats of level HIGH or CRITICAL.
C25_ReadSnapshotClassifyBlock ==
  (cyc_last.op = "scan_and_respond" /\ ~cyc_last.demo_mode
     /\ cyc_last.new_attempts # <<>>) =>
    /\ cyc_last.raised = None
    /\ \A a \in BurstAddrs :
         /\ dict_get(parser.failed_attempts, a) =
              dict_get(cyc_last.fa0, a) + dict_get(cyc_last.new_attempts, a)
         /\ dict_get(cyc_last.failed_attempts, a) =
              dict_get(parser.failed_attempts, a)
         /\ dict_get(cyc_last.failed_attempts, a) >= detector.threshold =>
              \E i \in ThreatsFor(cyc_last, a) :
                /\ cyc_last.threats[i].attempts =
                     dict_get(cyc_last.failed_attempts, a)
                /\ cyc_last.threats[i].threat_level \in HighOrCritical
                     => BlocksFor(cyc_last, a) # {}

\* ------------------------------------------------------------------ C30

\* The BLOCK events a cycle logged for the address a, and its _block_ip
\* calls for a in which iptables -A succeeded.
BlockEventsFor(c, a) == {i \in 1..Len(c.log) : c.log[i] = Event("BLOCK", a)}
AddsFor(c, a) ==
  {j \in BlocksFor(c, a) : c.blocks[j].fw = <<FwCall("A", a, TRUE)>>}

\* C30: a cycle logs as many BLOCK events for an address as it made
\* successful iptables -A invocations for it, and logs none for an address
\* that was in the Blocker's list when the cycle began.
C30_BlockRecordedOnlyForTransition ==
  cyc_last.op = "scan_and_respond" =>
    \A a \in CycleAddrs :
      /\ Cardinality(BlockEventsFor(cyc_last, a)) =
           Cardinality(AddsFor(cyc_last, a))
      /\ a \in Range(cyc_last.list0) => BlockEventsFor(cyc_last, a) = {}

\* ------------------------------------------------------------------ C29

\* The last call was a run of blocker.py that invoked iptables -F.
CliFlushed ==
  /\ last.op = "blocker.py"
  /\ \E i \in 1..Len(last.fw) : last.fw[i].cmd = "F"

\* A run of blocker.py left the chain and the file as they were and its
\* Blocker's list as it was loaded.
CliChangedNothing ==
  /\ iptables = last.b0.ipt
  /\ blocked_ips_file = last.b0.file
  /\ last.b.list = _load_blocked_ips(last.b0.file)

\* C29 as stated: a run of blocker.py invokes the flush only for the flush
\* command when the operator typed yes, and with any other answer the chain,
\* the list and the file are unchanged.
C29_FlushOnlyOnYes ==
  last.op = "blocker.py" =>
    /\ CliFlushed =>
         last.argv = <<"flush">> /\ last.answer = <<"y", "e", "s">>
    /\ (last.argv = <<"flush">> /\ last.answer # <<"y", "e", "s">>) =>
         CliChangedNothing

\* C29, amended: a run of blocker.py invokes the flush only for the flush
\* command when the operator typed yes in any letter case (yes, YES,
\* Yes), and does invoke it then; with any other answer the chain, the list
\* and the file are unchanged.
C29_FlushOnlyOnYesAnyCase ==
  last.op = "blocker.py" =>
    /\ CliFlushed <=>
         last.argv = <<"flush">> /\ lower(last.answer) = <<"y", "e", "s">>
    /\ (last.argv = <<"flush">> /\ lower(last.answer) # <<"y", "e", "s">>) =>
         CliChangedNothing

\* Two addresses are blocked and the operator, asked by the flush command,
\* typed a blank before yes: nothing was flushed.
C29_Witness ==
  /\ last.op = "blocker.py" /\ last.argv = <<"flush">>
  /\ last.answer = <<" ", "y", "e", "s">>
  /\ Len(blocked_ips_list) = 2
  /\ \A a \in Tracked : iptables[a] = 1

\* ------------------------------------------------------------------ helpers of the process properties

\* The cycle the steps have just gone through, as scan_and_respond makes it
\* in one piece from the world the cycle began in.
CycleInOnePiece ==
  scan_and_respond([proc.w0 EXCEPT !.oks = proc.cyc.oks \o <<TRUE, TRUE, TRUE>>],
                   ids.demo_mode, ids.enable_http, ids.scan_count,
                   proc.cyc.demo_attempts, AuthLog, log_entries, clock,
                   proc.cyc.outcome)

\* The steps of a cycle that has returned or raised leave what
\* scan_and_respond leaves when it is taken in one piece.
StepsMakeTheCycle ==
  (At("scan_count += 1") \/ (proc.exit_code = 1 /\ ~proc.signalled)) =>
    [proc.w EXCEPT !.oks = <<>>] = [CycleInOnePiece EXCEPT !.oks = <<>>]

\* SIGINT came while a cycle was in flight: scan_and_respond had been
\* entered and had not returned.
SigintInFlight ==
  /\ proc.signalled
  /\ \E k \in 1..Len(proc.cut) : proc.cut[k].t = "scan_and_respond returns"

\* The process has exited.
Exited == proc.mode \in Modes /\ proc.exit_code # NoExit

\* ------------------------------------------------------------------ C24

\* C24: at most one cycle is in flight; a cycle begins only when every
\* cycle before it has returned from scan_and_respond, its threats answered
\* and its blocks made, and only a cycle that began ends.
C24_OneCycleAtATime ==
  proc.mode \in Modes =>
    /\ Cardinality(proc.began \ proc.ended) <= 1
    /\ proc.ended \subseteq proc.began
    /\ \A n \in proc.began : \A m \in 0..(n - 1) : m \in proc.ended

\* The second cycle is in flight, at the iptables invocation of a block,
\* the first having ended.
C24_Witness ==
  /\ proc.began = {0, 1} /\ proc.ended = {0}
  /\ At("subprocess.run")

\* ------------------------------------------------------------------ C26

\* C26: when SIGINT comes while a cycle is in flight, the cycle has run to
\* its end by the time the process exits (every cycle begun has ended and
\* none began after the signal), the session summary has been printed
\* once, and the exit code is 0.
C26_InFlightCycleFinishes ==
  (Exited /\ SigintInFlight) =>
    /\ proc.began = proc.ended
    /\ proc.summaries = 1
    /\ proc.exit_code = 0

\* ------------------------------------------------------------------ C27

\* C27: when the process has exited after SIGINT, every address the chain
\* holds a rule for is in the Blocker's list and in the block-list file.
C27_AddsTrackedAtExit ==
  (Exited /\ proc.signalled) =>
    \A a \in DOMAIN iptables :
      iptables[a] > 0 => a \in Tracked /\ a \in Recorded

\* ------------------------------------------------------------------ C28

\* C28: in every mode a process stopped by SIGINT exits with code 0, and a
\* process whose IDS was built, so that no startup error occurred, exits
\* with no other code.
C28_ExitCodes ==
  Exited =>
    /\ proc.signalled => proc.exit_code = 0
    /\ proc.exit_code = 0

\* ------------------------------------------------------------------ C33

\* C33: after any append and remove calls on a CustomLinkedList, len is the
\* number of elements of to_list, to_list holds what was appended and not
\* removed, in insertion order, search(x) is true exactly for the elements
\* of to_list, and remove(x) takes out the first x alone and returns true
\* exactly when x was in the list.
C33_LinkedList ==
  LET to_list == CustomLinkedList_to_list(structure)
      to_list0 == CustomLinkedList_to_list(st_last.before)
  IN st_last.op \in {"append", "remove"} =>
       /\ structure_len(structure) = Len(to_list)
       /\ to_list = st_hist
       /\ \A x \in Elems :
            CustomLinkedList_search(structure, x)
              <=> \E i \in 1..Len(to_list) : to_list[i] = x
       /\ st_last.op = "remove" =>
            /\ st_last.ret = (\E i \in 1..Len(to_list0) :
                                to_list0[i] = st_last.arg)
            /\ to_list = RemoveFirst(to_list0, st_last.arg)

\* x, y, x appended and x removed: y, x is left.
C33_Witness ==
  /\ st_last.op = "remove" /\ st_last.ret = TRUE
  /\ CustomLinkedList_to_list(st_last.before) = <<"x", "y", "x">>
  /\ st_last.arg = "x"
  /\ CustomLinkedList_to_list(structure) = <<"y", "x">>

\* ------------------------------------------------------------------ C34

\* C34: after any insert and delete calls on a CustomHashTable, whether or
\* not the keys share a bucket, get(k) is the value of the latest insert of
\* k that no delete of k followed, and None for any other key; len is the
\* number of keys stored, an insert on a stored key leaving it as it was;
\* delete(k) returns true exactly when k was stored.
C34_HashTable ==
  st_last.op \in {"insert", "delete"} =>
    /\ \A k \in Keys :
         CustomHashTable_get(structure, py_hash, k)
           = IF k \in DOMAIN st_hist THEN st_hist[k] ELSE None
    /\ CustomHashTable_len(structure) = Cardinality(DOMAIN st_hist)
    /\ (st_last.op = "insert" /\ st_last.arg \in DOMAIN st_last.hist0) =>
         CustomHashTable_len(structure) = CustomHashTable_len(st_last.before)
    /\ st_last.op = "delete" =>
         st_last.ret = (st_last.arg \in DOMAIN st_last.hist0)

\* Both keys are in one bucket, j before k, and j is deleted.
C34_Witness ==
  /\ st_last.op = "delete" /\ st_last.arg = "j" /\ st_last.ret = TRUE
  /\ py_hash["j"] % TableSize = py_hash["k"] % TableSize
  /\ CustomHashTable_keys(st_last.before) = <<"j", "k">>
  /\ CustomHashTable_keys(structure) = <<"k">>

\* ------------------------------------------------------------------ C35

\* C35: contains(k) is true exactly when k is stored, whatever the value
\* stored with it, and exactly when k is among keys().
C35_ContainsIffStored ==
  st_last.op \in {"insert", "delete"} =>
    \A k \in Keys :
      /\ CustomHashTable_contains(structure, py_hash, k)
           <=> k \in DOMAIN st_hist
      /\ CustomHashTable_contains(structure, py_hash, k)
           <=> \E i \in 1..Len(CustomHashTable_keys(structure)) :
                 CustomHashTable_keys(structure)[i] = k

\* ------------------------------------------------------------------ C36

\* C36: after any enqueue and dequeue calls on a CustomQueue, dequeue
\* returns the elements in the order they were enqueued, len is the number
\* of elements enqueued and not dequeued, front is None exactly when rear
\* is None and exactly when len is 0, peek returns the next element and
\* takes nothing out, and dequeue and peek on an empty queue return None,
\* the queue staying as it was.
C36_Queue ==
  st_last.op \in {"enqueue", "dequeue"} =>
    /\ CustomQueue_to_list(structure) = st_hist
    /\ structure_len(structure) = Len(st_hist)
    /\ (structure.front = Nil) <=> (structure.rear = Nil)
    /\ (structure.front = Nil) <=> (structure_len(structure) = 0)
    /\ CustomQueue_peek(structure)
         = IF st_hist = <<>> THEN None ELSE Head(st_hist)
    /\ st_last.op = "dequeue" =>
         /\ st_last.ret = IF st_last.hist0 = <<>> THEN None
                          ELSE Head(st_last.hist0)
         /\ st_last.hist0 = <<>> => structure = st_last.before

\* x and y were enqueued, x was dequeued, and the dequeue of y empties the
\* queue.
C36_Witness ==
  /\ st_last.op = "dequeue" /\ st_last.ret = "y"
  /\ CustomQueue_to_list(st_last.before) = <<"y">>
  /\ st_calls = 4
  /\ is_empty(structure)

\* ------------------------------------------------------------------ C31

\* The threats the detect_threats calls made so far have returned.
Returned == IF det_last.op = "none" THEN <<>> ELSE det_last.returned

Levels == {"LOW", "MEDIUM", "HIGH", "CRITICAL"}

ReturnedOfLevel(level) ==
  Cardinality({i \in 1..Len(Returned) : Returned[i].threat_level = level})

RECURSIVE SumOver(_, _)
SumOver(f, S) ==
  IF S = {} THEN 0
  ELSE LET x == CHOOSE x \in S : TRUE IN f[x] + SumOver(f, S \ {x})

\* C31: after any detect_threats calls the total of get_threat_summary is
\* the number of threats the calls returned, the counts by level sum to
\* it, the count of a level is the number of returned threats of that
\* level (a level with none has no entry), and with no threat the summary
\* is total 0 with an empty map.
C31_ThreatSummary ==
  LET summary == get_threat_summary(detector)
  IN /\ summary.total = Len(Returned)
     /\ SumOver(summary.by_level, DOMAIN summary.by_level) = summary.total
     /\ \A level \in Levels :
          IF level \in DOMAIN summary.by_level
            THEN summary.by_level[level] = ReturnedOfLevel(level)
          ELSE ReturnedOfLevel(level) = 0
     /\ DOMAIN summary.by_level \subseteq Levels
     /\ Returned = <<>> => summary = [total |-> 0, by_level |-> <<>>]

\* Two calls have returned threats, two of them of one level and one of
\* another.
C31_Witness ==
  /\ det_calls >= 2 /\ det_last.threats # <<>>
  /\ Len(Returned) > Len(det_last.threats)
  /\ \E l1, l2 \in Levels :
       l1 # l2 /\ ReturnedOfLevel(l1) >= 2 /\ ReturnedOfLevel(l2) >= 1

\* ------------------------------------------------------------------ C32

\* The number of requests of an address made so far in which a category
\* matched.
Matching(ip) ==
  Cardinality({i \in 1..Len(st_hist) :
                 st_hist[i].ip = ip /\ st_hist[i].attack_types # <<>>})

C37_IDSIsBuiltAndStarts ==
  LET called == \A k \in 1..Len(proc.tasks) : proc.tasks[k].t # "IDS"
      started == \A k \in 1..Len(proc.tasks) :
                   proc.tasks[k].t \notin {"IDS", "signal.signal", "ids.start"}
  IN (proc.mode \in Modes /\ called /\ ~proc.signalled
        /\ proc.exit_code # 130) =>
       /\ proc.built
       /\ ids.raised = None
       /\ proc.exit_code # 1
       /\ started => ids.running

\* ------------------------------------------------------------------ C38

\* C38: with another Blocker at work on the same file, an address the
\* orchestrator's block call answers as blocked has a DROP rule in the
\* chain.
C38_ReportedBlockedHasRule ==
  (last.op = "IDS._block_ip" /\ last.ret) => iptables[last.ip] > 0

\* ------------------------------------------------------------------ C39

\* C39: the addresses in table blocked_ips are those the block-list file
\* holds, so that total_blocked of the statistics is their number; an
\* address unblocked with success is not in the table.
C39_DatabaseMatchesBlocker ==
  /\ db_blocked_ips = Recorded
  /\ get_statistics(DbNow).total_blocked = Cardinality(Recorded)
  /\ (last.op = "unblock_selected" /\ last.ret) =>
       last.ip \notin db_blocked_ips

====
